---------------------------- MODULE Spec2Model ----------------------------
(***************************************************************************)
(* A model of kicad_lib: the S-expression tokenizer and recursive-descent  *)
(* parser (parser/sexpr.py), the tree writer (writer/sexpr_writer.py) and  *)
(* the symbol-library / schematic decoders and encoders built on them.     *)
(*                                                                         *)
(* A text is a sequence of one-character strings.  A tree value (SExpr) is *)
(* a record: an atom [type |-> "atom", val |-> <characters>] or a list     *)
(* [type |-> "list", val |-> <children>].  Python's zero-based positions   *)
(* are kept; text[pos] of the source is text[pos + 1] here.                *)
(***************************************************************************)
EXTENDS Integers, Sequences, FiniteSets, TLC

VARIABLES
    text,     \* the text handed to a parser or a decoder, or written by a writer
    mode,     \* the call: "parse" (parse_sexpr), "parse_all"
              \* (parse_sexpr_file), "symbol_library" (parse_symbol_library),
              \* "schematic" (parse_schematic), or the name of a helper
              \* (sexpr_get, sexpr_get_all, sexpr_get_value, sexpr_get_int);
              \* "lookup" (symbol_by_reference / symbols_by_lib_id),
              \* "repeat" (parse_schematic called twice), "SymbolInstance"
              \* and "SymbolDef" (the class of with_property),
              \* "wire_dangling" and "label_dangling" (the rule checked),
              \* "runner" (ErcRunner)
    pc,       \* position of the call: "tokenize", "parse", "done" of a
              \* parser; "decode", "encode", "redecode", "done" of a decoder;
              \* "write", "reparse", "done" of write_sexpr; "write_library",
              \* "read_library", "done" of write_symbol_library; "call",
              \* "done" of a helper; "decode_base", "decode_inserted", "done"
              \* of a file decoded without and with one more child;
              \* "decode", "decoded", "done" of a lookup; "first", "second",
              \* "done" of a repeated decoding; "with_property",
              \* "property_value", "done"; "check", "done" of a rule;
              \* "calls", "done" of the runners
    tz,       \* the Tokenizer object and the token list of tokenize()
    ps,       \* the Parser object with its call stack of open lists
    result,   \* the Result returned by the call; of a decoder its outcome,
              \* the Result it returned or the exception that left it; of a
              \* helper the value it returned
    doc,      \* the tree the input text of a decoder was written from, the
              \* tree or library handed to a writer, the tree and key handed
              \* to a helper, a file and the child put into it, the symbol
              \* instances of a schematic, the receiver and the property of
              \* with_property, or the schematic handed to a rule
    out       \* the text write_symbol_library wrote of the decoded library
              \* and the outcome of decoding that text; the outcome of
              \* decoding the file without the child; the lookup made and
              \* what it returned; the first outcome of a repeated decoding;
              \* the heap of rule lists and the runners made

vars == <<text, mode, pc, tz, ps, result, doc, out>>

-----------------------------------------------------------------------------
(* Bounds of the model.                                                    *)

\* longest enumerated input text
MaxLen == 4

\* the characters enumerated texts are made of: both parens, the quote, the
\* backslash, the comment character, a newline, a space and an atom character
Alphabet == {"(", ")", "\"", "\\", ";", "\n", " ", "a"}

RECURSIVE TextsOfLen(_)
TextsOfLen(n) ==
    IF n = 0 THEN {<<>>}
    ELSE {Append(t, c) : t \in TextsOfLen(n - 1), c \in Alphabet}

\* the texts of the specification's own examples (spec section 8)
SampleTexts ==
    { <<"(", "a", "\n", " ", " ", "b", ")">>,
      <<"(", "f", "o", "o", " ", "\"", "b", "a", "r">>,
      <<"(", ")">>,
      <<"a", ";", "b">> }

Texts == UNION {TextsOfLen(n) : n \in 0..MaxLen} \cup SampleTexts

-----------------------------------------------------------------------------
(* Result, ParseError, Token and the tree values.                          *)

Ok(v) == [ok |-> TRUE, value |-> v]
Err(e) == [ok |-> FALSE, error |-> e]

\* Python's None
None == [none |-> TRUE]

ParseError(message, line, column) ==
    [message |-> message, line |-> line, column |-> column]

Token(type, value, line, column) ==
    [type |-> type, value |-> value, line |-> line, column |-> column]

Atom(s) == [type |-> "atom", val |-> s]
List(items) == [type |-> "list", val |-> items]
IsAtom(e) == e.type = "atom"
IsList(e) == e.type = "list"

\* The message texts.  A message is a sequence: the literal text of the
\* source, followed by the characters of any value formatted into it.
MsgUnterminated == <<"Unterminated string">>
MsgEndInList == <<"Unexpected end of input in list">>
MsgEndOfInput == <<"Unexpected end of input">>
MsgClosingParen == <<"Unexpected closing paren">>
MsgTrailing(value) == <<"Unexpected token after expression: ">> \o value

-----------------------------------------------------------------------------
(* Tokenizer.                                                              *)

Tokenizer(t) == [text |-> t, pos |-> 0, line |-> 1, col |-> 1]

_peek(t) == IF t.pos >= Len(t.text) THEN "" ELSE t.text[t.pos + 1]

\* mutant of _advance: a newline does not reset the column
_advance_keepsColumn(t) ==
    LET ch == t.text[t.pos + 1]
    IN  IF ch = "\n"
        THEN [t EXCEPT !.pos = @ + 1, !.line = @ + 1, !.col = @ + 1]
        ELSE [t EXCEPT !.pos = @ + 1, !.col = @ + 1]

_advance(t) ==
    LET ch == t.text[t.pos + 1]
    IN  IF ch = "\n"
        THEN [t EXCEPT !.pos = @ + 1, !.line = @ + 1, !.col = 1]
        ELSE [t EXCEPT !.pos = @ + 1, !.col = @ + 1]

RECURSIVE SkipComment(_)
SkipComment(t) ==
    IF t.pos < Len(t.text) /\ _peek(t) # "\n"
    THEN SkipComment(_advance(t))
    ELSE t

\* mutant of _skip_whitespace: a ';' is not taken as the start of a comment
RECURSIVE _skip_whitespace_noComment(_)
_skip_whitespace_noComment(t) ==
    IF t.pos < Len(t.text) /\ _peek(t) \in {" ", "\t", "\n", "\r"}
    THEN _skip_whitespace_noComment(_advance(t))
    ELSE t

RECURSIVE _skip_whitespace(_)
_skip_whitespace(t) ==
    IF t.pos < Len(t.text)
    THEN LET ch == _peek(t)
         IN  IF ch \in {" ", "\t", "\n", "\r"}
             THEN _skip_whitespace(_advance(t))
             ELSE IF ch = ";"
             THEN _skip_whitespace(SkipComment(t))
             ELSE t
    ELSE t

Unescape(escape_ch) ==
    CASE escape_ch = "n" -> "\n"
      [] escape_ch = "t" -> "\t"
      [] escape_ch = "r" -> "\r"
      [] OTHER -> escape_ch

\* the loop of _read_string; start is the tokenizer at the opening quote
RECURSIVE ReadStringLoop(_, _, _)
ReadStringLoop(t, chars, start) ==
    IF t.pos < Len(t.text)
    THEN LET ch == _peek(t)
         IN  IF ch = "\""
             THEN [t |-> _advance(t),
                   res |-> Ok(Token("STRING", chars, start.line, start.col))]
             ELSE IF ch = "\\"
             THEN LET t1 == _advance(t)
                  IN  IF t1.pos < Len(t1.text)
                      THEN ReadStringLoop(_advance(t1),
                                          Append(chars, Unescape(_peek(t1))),
                                          start)
                      ELSE ReadStringLoop(t1, chars, start)
             ELSE ReadStringLoop(_advance(t), Append(chars, ch), start)
    ELSE [t |-> t,
          res |-> Err(ParseError(MsgUnterminated, start.line, start.col))]

\* mutant of _read_string: a string that the text ends in is a token
_read_string_lenient(t) ==
    LET r == ReadStringLoop(_advance(t), <<>>, t)
    IN  IF r.res.ok THEN r
        ELSE [r EXCEPT !.res = Ok(Token("STRING", <<>>, t.line, t.col))]

\* mutant of _read_string: the start is taken after the opening quote
_read_string_startAfterQuote(t) ==
    ReadStringLoop(_advance(t), <<>>, _advance(t))

_read_string(t) == ReadStringLoop(_advance(t), <<>>, t)

AtomStops == {" ", "\t", "\n", "\r", "(", ")", "\""}

RECURSIVE ReadAtomLoop(_, _, _)
ReadAtomLoop(t, chars, start) ==
    IF t.pos < Len(t.text) /\ _peek(t) \notin AtomStops
    THEN ReadAtomLoop(_advance(t), Append(chars, _peek(t)), start)
    ELSE [t |-> t, res |-> Ok(Token("ATOM", chars, start.line, start.col))]

\* mutant of _read_atom: an atom of no character is read
_read_atom_nothing(t) == [t |-> t, res |-> Ok(Token("ATOM", <<>>, t.line, t.col))]

_read_atom(t) == ReadAtomLoop(t, <<>>, t)

\* One iteration of the main loop of tokenize(): z is the loop's state, the
\* tokenizer t, the tokens so far, and the value returned once it has ended.
TokenizeStart(txt) ==
    [t |-> Tokenizer(txt), tokens |-> <<>>, done |-> FALSE, res |-> Ok(<<>>)]

TokenizeIter(z) ==
    IF ~(z.t.pos < Len(z.t.text))
    THEN [z EXCEPT !.done = TRUE, !.res = Ok(z.tokens)]
    ELSE LET t == _skip_whitespace(z.t)
         IN  IF t.pos >= Len(t.text)
             THEN [z EXCEPT !.t = t, !.done = TRUE, !.res = Ok(z.tokens)]
             ELSE LET ch == _peek(t)
                      r == CASE ch = "(" ->
                                  [t |-> _advance(t),
                                   res |-> Ok(Token("LPAREN", <<"(">>, t.line, t.col))]
                             [] ch = ")" ->
                                  [t |-> _advance(t),
                                   res |-> Ok(Token("RPAREN", <<")">>, t.line, t.col))]
                             [] ch = "\"" -> _read_string(t)
                             [] OTHER -> _read_atom(t)
                  IN  IF r.res.ok
                      THEN [z EXCEPT !.t = r.t,
                                     !.tokens = Append(@, r.res.value)]
                      ELSE [z EXCEPT !.t = r.t, !.done = TRUE, !.res = r.res]

RECURSIVE TokenizeLoop(_, _)
\* The while loop of tokenize(), run for at most n iterations.  The n
\* iterations are split in halves, which keeps the evaluation shallow.
TokenizeLoop(z, n) ==
    IF z.done \/ n = 0 THEN z
    ELSE IF n = 1 THEN TokenizeIter(z)
    ELSE TokenizeLoop(TokenizeLoop(z, n \div 2), n - (n \div 2))

\* Every iteration but the last takes at least one character of the text, so
\* the loop has returned after Len(txt) + 1 iterations.
tokenize(txt) == TokenizeLoop(TokenizeStart(txt), Len(txt) + 1).res

-----------------------------------------------------------------------------
(* Parser.  The recursion of _parse_expr / _parse_list is kept as a stack  *)
(* of frames, one per _parse_list call that has not returned: its          *)
(* start_token and its items.                                              *)

Parser(tokens) ==
    [tokens |-> tokens, pos |-> 0, stack |-> <<>>, exprs |-> <<>>,
     done |-> FALSE, res |-> Ok(<<>>)]

HasToken(p) == p.pos < Len(p.tokens)

PeekToken(p) == p.tokens[p.pos + 1]

Return(p, r) == [p EXCEPT !.done = TRUE, !.res = r]

\* mutant of TopLevelExpr: parse() does not look for trailing tokens
TopLevelExpr_noTrailingCheck(p, v, m) ==
    IF m = "parse"
    THEN Return(p, Ok(v))
    ELSE [p EXCEPT !.exprs = Append(@, v)]

\* a top-level _parse_expr has returned Ok(v) to parse() or parse_all()
TopLevelExpr(p, v, m) ==
    IF m = "parse"
    THEN IF p.pos < Len(p.tokens)
         THEN LET token == p.tokens[p.pos + 1]
              IN  Return(p, Err(ParseError(MsgTrailing(token.value),
                                           token.line, token.column)))
         ELSE Return(p, Ok(v))
    ELSE [p EXCEPT !.exprs = Append(@, v)]

\* _parse_expr has returned Ok(v) to its caller
Deliver(p, v, m) ==
    IF p.stack = <<>>
    THEN TopLevelExpr(p, v, m)
    ELSE [p EXCEPT !.stack[Len(p.stack)].items = Append(@, v)]

\* mutant of _parse_expr: a closing paren is taken as an atom
_parse_expr_parenAsAtom(p, m) ==
    IF ~HasToken(p)
    THEN Return(p, Err(ParseError(MsgEndOfInput, 0, 0)))
    ELSE LET token == PeekToken(p)
         IN  IF token.type = "LPAREN"
             THEN [p EXCEPT !.pos = @ + 1,
                            !.stack = Append(@, [start |-> token, items |-> <<>>])]
             ELSE Deliver([p EXCEPT !.pos = @ + 1], Atom(token.value), m)

\* _parse_expr, up to the point where it returns or calls _parse_list
_parse_expr(p, m) ==
    IF ~HasToken(p)
    THEN Return(p, Err(ParseError(MsgEndOfInput, 0, 0)))
    ELSE LET token == PeekToken(p)
         IN  CASE token.type = "LPAREN" ->
                    [p EXCEPT !.pos = @ + 1,
                              !.stack = Append(@, [start |-> token, items |-> <<>>])]
               [] token.type = "RPAREN" ->
                    Return(p, Err(ParseError(MsgClosingParen,
                                             token.line, token.column)))
               [] OTHER ->
                    Deliver([p EXCEPT !.pos = @ + 1], Atom(token.value), m)

\* mutant of _parse_list: the error names the outermost open list
_parse_list_outermost(p, m) ==
    LET top == p.stack[Len(p.stack)]
    IN  IF ~HasToken(p)
        THEN Return(p, Err(ParseError(MsgEndInList,
                                      p.stack[1].start.line,
                                      p.stack[1].start.column)))
        ELSE IF PeekToken(p).type = "RPAREN"
        THEN Deliver([p EXCEPT !.pos = @ + 1,
                               !.stack = SubSeq(@, 1, Len(@) - 1)],
                     List(top.items), m)
        ELSE _parse_expr(p, m)

\* one iteration of the loop of the innermost _parse_list
_parse_list(p, m) ==
    LET top == p.stack[Len(p.stack)]
    IN  IF ~HasToken(p)
        THEN Return(p, Err(ParseError(MsgEndInList,
                                      top.start.line, top.start.column)))
        ELSE IF PeekToken(p).type = "RPAREN"
        THEN Deliver([p EXCEPT !.pos = @ + 1,
                               !.stack = SubSeq(@, 1, Len(@) - 1)],
                     List(top.items), m)
        ELSE _parse_expr(p, m)

\* mutant of ParseIter: parse_all() stops after the first expression
ParseIter_firstOnly(p, m) ==
    IF p.stack # <<>>
    THEN _parse_list(p, m)
    ELSE IF m = "parse_all" /\ (~(p.pos < Len(p.tokens)) \/ p.exprs # <<>>)
    THEN Return(p, Ok(p.exprs))
    ELSE _parse_expr(p, m)

\* One step of parse() (m = "parse") or parse_all() (m = "parse_all").
ParseIter(p, m) ==
    IF p.stack # <<>>
    THEN _parse_list(p, m)
    ELSE IF m = "parse_all" /\ ~(p.pos < Len(p.tokens))
    THEN Return(p, Ok(p.exprs))
    ELSE _parse_expr(p, m)

RECURSIVE ParseLoop(_, _, _)
\* At most n steps of the parser, split in halves as in TokenizeLoop.
ParseLoop(p, m, n) ==
    IF p.done \/ n = 0 THEN p
    ELSE IF n = 1 THEN ParseIter(p, m)
    ELSE ParseLoop(ParseLoop(p, m, n \div 2), m, n - (n \div 2))

\* Every step but the last takes one token, so the parser has returned after
\* Len(tokens) + 1 steps.
parse(tokens) == ParseLoop(Parser(tokens), "parse", Len(tokens) + 1).res
parse_all(tokens) == ParseLoop(Parser(tokens), "parse_all", Len(tokens) + 1).res

parse_sexpr(txt) ==
    LET tokens_result == tokenize(txt)
    IN  IF ~tokens_result.ok THEN tokens_result
        ELSE parse(tokens_result.value)

parse_sexpr_file(txt) ==
    LET tokens_result == tokenize(txt)
    IN  IF ~tokens_result.ok THEN Err(tokens_result.error)
        ELSE parse_all(tokens_result.value)

-----------------------------------------------------------------------------
(* Python values of the decoders and encoders.  A str is an Atom; the      *)
(* literal "pin" of the source is Str("pin").  A float is an integer count *)
(* of millionths (the six decimals format_number keeps), so 2.54 is        *)
(* 2540000; the numerals of the inputs carry at most six decimals and stay *)
(* far below 2^31 millionths.  A call either returns a value or raises.    *)

Chars(s) == [i \in 1..Len(s) |-> SubSeq(s, i, i)]
Str(s) == Atom(Chars(s))

Returned(v) == [raised |-> FALSE, v |-> v]
Raise(exc) == [raised |-> TRUE, exc |-> exc]
\* the statements after a call run only when the call returned
Bind(r, F(_)) == IF r.raised THEN r ELSE F(r.v)

RECURSIVE Collect(_, _, _)
\* [F(item) for item in items], stopped by the first call that raises
Collect(F(_), items, acc) ==
    IF items = <<>> THEN Returned(acc)
    ELSE Bind(F(Head(items)),
              LAMBDA v : Collect(F, Tail(items), Append(acc, v)))

RECURSIVE Join(_, _)
\* sep.join(parts)
Join(parts, sep) ==
    IF parts = <<>> THEN <<>>
    ELSE IF Len(parts) = 1 THEN parts[1]
    ELSE parts[1] \o sep \o Join(Tail(parts), sep)

DigitChars == Chars("0123456789")
AllDigits(s) == \A i \in 1..Len(s) : \E d \in 1..10 : DigitChars[d] = s[i]

RECURSIVE DigitsValue(_)
\* the number a string of decimal digits denotes
DigitsValue(s) ==
    IF s = <<>> THEN 0
    ELSE DigitsValue(SubSeq(s, 1, Len(s) - 1)) * 10
         + (CHOOSE d \in 0..9 : DigitChars[d + 1] = s[Len(s)])

RECURSIVE NatToStr(_)
NatToStr(n) ==
    IF n < 10 THEN <<DigitChars[n + 1]>>
    ELSE NatToStr(n \div 10) \o <<DigitChars[(n % 10) + 1]>>

\* str(i) of an int
IntToStr(i) == IF i < 0 THEN <<"-">> \o NatToStr(-i) ELSE NatToStr(i)

\* a numeral split into its sign and what follows the sign
Signed(s) ==
    [sign |-> IF s # <<>> /\ s[1] = "-" THEN -1 ELSE 1,
     body |-> IF s # <<>> /\ s[1] \in {"+", "-"} THEN Tail(s) ELSE s]

Blank == {" ", "\t", "\n", "\r"}

RECURSIVE strip(_)
\* s.strip()
strip(s) ==
    IF s # <<>> /\ Head(s) \in Blank THEN strip(Tail(s))
    ELSE IF s # <<>> /\ s[Len(s)] \in Blank THEN strip(SubSeq(s, 1, Len(s) - 1))
    ELSE s

\* decimal digits, single underscores allowed between two digits
Grouped(s) ==
    /\ s # <<>>
    /\ \A i \in 1..Len(s) :
          \/ AllDigits(<<s[i]>>)
          \/ s[i] = "_" /\ 1 < i /\ i < Len(s) /\ s[i - 1] # "_" /\ s[i + 1] # "_"

\* int(s): blanks around an optional sign and grouped decimal digits, else
\* ValueError
int(s) ==
    LET body == Signed(strip(s)).body
    IN  IF Grouped(body)
        THEN Returned(Signed(strip(s)).sign
                      * DigitsValue(SelectSeq(body, LAMBDA c : c # "_")))
        ELSE Raise("ValueError")

\* float(s): an optional sign, digits, an optional point and digits, with at
\* least one digit, else ValueError.  (Exponents, inf, nan, blank padding
\* and underscores, which Python also accepts, do not occur in the inputs.)
float(s) ==
    LET body == Signed(s).body
        dots == {i \in 1..Len(body) : body[i] = "."}
        dot == IF dots = {} THEN Len(body) + 1
               ELSE CHOOSE i \in dots : \A j \in dots : i <= j
        whole == SubSeq(body, 1, dot - 1)
        frac == SubSeq(body, dot + 1, Len(body))
        millionths == DigitsValue(SubSeq(frac \o Chars("000000"), 1, 6))
    IN  IF /\ Cardinality(dots) <= 1
           /\ AllDigits(whole) /\ AllDigits(frac)
           /\ Len(whole) + Len(frac) >= 1
        THEN Returned(Signed(s).sign * (DigitsValue(whole) * 1000000 + millionths))
        ELSE Raise("ValueError")

\* float(e) if isinstance(e, str) else default
FloatOr(e, default) == IF IsAtom(e) THEN float(e.val) ELSE Returned(default)

RECURSIVE RStrip(_, _)
\* s.rstrip(c)
RStrip(s, c) ==
    IF s # <<>> /\ s[Len(s)] = c THEN RStrip(SubSeq(s, 1, Len(s) - 1), c) ELSE s

\* s.lower(), on the letters A..Z
lower(s) ==
    LET upper == Chars("ABCDEFGHIJKLMNOPQRSTUVWXYZ")
        small == Chars("abcdefghijklmnopqrstuvwxyz")
    IN  [i \in 1..Len(s) |->
            IF \E k \in 1..26 : upper[k] = s[i]
            THEN small[CHOOSE k \in 1..26 : upper[k] = s[i]]
            ELSE s[i]]

-----------------------------------------------------------------------------
(* writer/sexpr_writer.py: a tree back to text.                            *)

_needs_quoting(s) ==
    \/ s = <<>>
    \/ \E i \in 1..Len(s) : s[i] \in {" ", "\t", "\n", "\r", "\"", "(", ")"}

RECURSIVE _escape_string_keepBackslash(_)
\* mutant of _escape_string: a backslash is written as it is
_escape_string_keepBackslash(s) ==
    IF s = <<>> THEN <<>>
    ELSE (CASE Head(s) = "\"" -> <<"\\", "\"">>
            [] Head(s) = "\n" -> <<"\\", "n">>
            [] Head(s) = "\r" -> <<"\\", "r">>
            [] Head(s) = "\t" -> <<"\\", "t">>
            [] OTHER -> <<Head(s)>>) \o _escape_string_keepBackslash(Tail(s))

RECURSIVE _escape_string(_)
_escape_string(s) ==
    IF s = <<>> THEN <<>>
    ELSE (CASE Head(s) = "\"" -> <<"\\", "\"">>
            [] Head(s) = "\\" -> <<"\\", "\\">>
            [] Head(s) = "\n" -> <<"\\", "n">>
            [] Head(s) = "\r" -> <<"\\", "r">>
            [] Head(s) = "\t" -> <<"\\", "t">>
            [] OTHER -> <<Head(s)>>) \o _escape_string(Tail(s))

_format_atom(atom) ==
    IF _needs_quoting(atom.val)
    THEN <<"\"">> \o _escape_string(atom.val) \o <<"\"">>
    ELSE atom.val

\* f"{value:.6f}" with the trailing zeros and a trailing point removed
format_number(value) ==
    LET mag == IF value < 0 THEN -value ELSE value
        formatted == (IF value < 0 THEN <<"-">> ELSE <<>>)
                     \o NatToStr(mag \div 1000000) \o <<".">>
                     \o Tail(NatToStr(1000000 + (mag % 1000000)))
        stripped == RStrip(RStrip(formatted, "0"), ".")
    IN  IF stripped = Chars("-0") THEN Chars("0") ELSE stripped

\* the arguments of make_sexpr that are numbers
PyFloat(x) == [float |-> x]
PyInt(i) == [int |-> i]

make_sexpr(args) ==
    List([i \in 1..Len(args) |->
            IF "float" \in DOMAIN args[i] THEN Atom(format_number(args[i].float))
            ELSE IF "int" \in DOMAIN args[i] THEN Atom(IntToStr(args[i].int))
            ELSE args[i]])

_compact_keys ==
    { Str("at"), Str("xy"), Str("start"), Str("end"), Str("size"),
      Str("stroke"), Str("fill"), Str("font"), Str("justify"), Str("color"),
      Str("pts"), Str("version"), Str("generator") }

RECURSIVE _write_inline(_)
_write_inline(expr) ==
    IF IsAtom(expr) THEN _format_atom(expr)
    ELSE <<"(">>
         \o Join([i \in 1..Len(expr.val) |-> _write_inline(expr.val[i])], <<" ">>)
         \o <<")">>

\* mutant of _should_inline: a rendering of exactly 80 characters is too long
_should_inline_below80(expr, depth) ==
    LET all_atoms == \A i \in 1..Len(expr.val) : IsAtom(expr.val[i])
    IN  \/ IsAtom(expr)
        \/ Len(expr.val) = 0
        \/ IsAtom(expr.val[1]) /\ expr.val[1] \in _compact_keys
        \/ Len(expr.val) = 2 /\ all_atoms
        \/ /\ Len(_write_inline(expr)) < 80
           /\ all_atoms \/ Len(expr.val) <= 3

_should_inline(expr, depth) ==
    LET all_atoms == \A i \in 1..Len(expr.val) : IsAtom(expr.val[i])
    IN  \/ IsAtom(expr)
        \/ Len(expr.val) = 0
        \/ IsAtom(expr.val[1]) /\ expr.val[1] \in _compact_keys
        \/ Len(expr.val) = 2 /\ all_atoms
        \/ /\ Len(_write_inline(expr)) <= 80
           /\ all_atoms \/ Len(expr.val) <= 3

RECURSIVE _write_expr(_, _)
\* the characters _write_expr writes to the output; the indent is the
\* default one of two blanks a level
_write_expr(expr, depth) ==
    LET indent(n) == [i \in 1..(2 * n) |-> " "]
    IN  IF IsAtom(expr) THEN _format_atom(expr)
        ELSE IF Len(expr.val) = 0 THEN Chars("()")
        ELSE IF _should_inline(expr, depth) THEN _write_inline(expr)
        ELSE <<"(">> \o _write_expr(expr.val[1], depth)
             \o Join([i \in 1..(Len(expr.val) - 1) |->
                        <<"\n">> \o indent(depth + 1)
                        \o _write_expr(expr.val[i + 1], depth + 1)], <<>>)
             \o <<"\n">> \o indent(depth) \o <<")">>

\* mutant of write_sexpr: the output is not ended by a newline
write_sexpr_noNewline(expr) == _write_expr(expr, 0)

\* SExprWriter(indent).write(expr)
write_sexpr(expr) == _write_expr(expr, 0) \o <<"\n">>

-----------------------------------------------------------------------------
(* parser/sexpr.py: the helpers that look into a tree.                     *)

\* mutant of sexpr_get_all: an empty child list matches every key
sexpr_get_all_withEmpty(expr, key) ==
    IF ~IsList(expr) THEN <<>>
    ELSE SelectSeq(expr.val,
                   LAMBDA item : /\ IsList(item)
                                 /\ \/ Len(item.val) = 0
                                    \/ IsAtom(item.val[1]) /\ item.val[1] = key)

sexpr_get_all(expr, key) ==
    IF ~IsList(expr) THEN <<>>
    ELSE SelectSeq(expr.val,
                   LAMBDA item : /\ IsList(item) /\ Len(item.val) > 0
                                 /\ IsAtom(item.val[1]) /\ item.val[1] = key)

RECURSIVE GetLoop(_, _)
\* the loop of sexpr_get over the items of a list
GetLoop(items, key) ==
    IF items = <<>> THEN None
    ELSE LET item == Head(items)
         IN  IF /\ IsList(item) /\ Len(item.val) > 0
                /\ IsAtom(item.val[1]) /\ item.val[1] = key
             THEN item
             ELSE GetLoop(Tail(items), key)

sexpr_get(expr, key) ==
    IF ~IsList(expr) THEN None ELSE GetLoop(expr.val, key)

sexpr_get_value(expr, key) ==
    LET child == sexpr_get(expr, key)
    IN  IF child # None /\ Len(child.val) >= 2 /\ IsAtom(child.val[2])
        THEN child.val[2]
        ELSE None

\* None, or PyFloat(x): the ValueError of float() is caught
sexpr_get_float(expr, key) ==
    LET val == sexpr_get_value(expr, key)
    IN  IF val # None /\ ~float(val.val).raised
        THEN PyFloat(float(val.val).v)
        ELSE None

\* mutant of sexpr_get_int: the first child headed by key that holds an
\* integer, not the first child headed by key
sexpr_get_int_anyMatch(expr, key) ==
    LET good == SelectSeq(sexpr_get_all(expr, key),
                          LAMBDA c : /\ Len(c.val) >= 2 /\ IsAtom(c.val[2])
                                     /\ ~int(c.val[2].val).raised)
    IN  IF good = <<>> THEN None ELSE PyInt(int(good[1].val[2].val).v)

\* None, or PyInt(i): the ValueError of int() is caught
sexpr_get_int(expr, key) ==
    LET val == sexpr_get_value(expr, key)
    IN  IF val # None /\ ~int(val.val).raised
        THEN PyInt(int(val.val).v)
        ELSE None

sexpr_has_flag(expr, flag) ==
    /\ IsList(expr)
    /\ \E i \in 1..Len(expr.val) : IsAtom(expr.val[i]) /\ expr.val[i] = flag

-----------------------------------------------------------------------------
(* types/: the values the decoders build.                                  *)

Point(x, y) == [x |-> x, y |-> y]
Position(x, y, angle) == [x |-> x, y |-> y, angle |-> angle]
Stroke(width, type) == [width |-> width, type |-> type, color |-> None]
Fill(type) == [type |-> type, color |-> None]
Font(size_x, size_y, bold, italic) ==
    [face |-> None, size_x |-> size_x, size_y |-> size_y, thickness |-> 254000,
     bold |-> bold, italic |-> italic, line_spacing |-> 1000000]
Effects(font, justify_h, justify_v, hide) ==
    [font |-> font, justify_h |-> justify_h, justify_v |-> justify_v,
     mirror |-> FALSE, hide |-> hide]
Property(name, value, id, position, effects) ==
    [name |-> name, value |-> value, id |-> id, position |-> position,
     effects |-> effects]

\* the members of an Enum are named by their values
PinElectricalType ==
    { Str("input"), Str("output"), Str("bidirectional"), Str("tri_state"),
      Str("passive"), Str("free"), Str("unspecified"), Str("power_in"),
      Str("power_out"), Str("open_collector"), Str("open_emitter"),
      Str("no_connect") }

\* mutant of PinElectricalType.from_string: a word it does not know is passive
PinElectricalType_from_string_passive(s) ==
    IF Atom(lower(s.val)) \in PinElectricalType THEN Atom(lower(s.val))
    ELSE Str("passive")

PinElectricalType_from_string(s) ==
    IF Atom(lower(s.val)) \in PinElectricalType THEN Atom(lower(s.val))
    ELSE Str("unspecified")

PinShape ==
    { Str("line"), Str("inverted"), Str("clock"), Str("inverted_clock"),
      Str("input_low"), Str("clock_low"), Str("output_low"),
      Str("edge_clock_high"), Str("non_logic") }

PinShape_from_string(s) ==
    IF Atom(lower(s.val)) \in PinShape THEN Atom(lower(s.val))
    ELSE Str("line")

SymbolParseError(message) == [message |-> message, context |-> <<>>]

\* str(err) of a ParseError
ParseErrorStr(err) ==
    <<"Parse error at line ">> \o IntToStr(err.line) \o <<", column ">>
    \o IntToStr(err.column) \o <<": ">> \o err.message

RECURSIVE repr(_)
\* repr(e) of a tree value: a list in brackets, a str in single quotes
\* (in double quotes when it holds a single quote and no double quote)
repr(e) ==
    LET s == e.val
        q == IF (\E i \in 1..Len(s) : s[i] = "'")
                /\ ~(\E i \in 1..Len(s) : s[i] = "\"")
             THEN "\"" ELSE "'"
        esc(c) == CASE c = "\\" -> <<"\\", "\\">>
                    [] c = q -> <<"\\", q>>
                    [] c = "\n" -> <<"\\", "n">>
                    [] c = "\r" -> <<"\\", "r">>
                    [] c = "\t" -> <<"\\", "t">>
                    [] OTHER -> <<c>>
    IN  IF IsAtom(e)
        THEN <<q>> \o Join([i \in 1..Len(s) |-> esc(s[i])], <<>>) \o <<q>>
        ELSE <<"[">>
             \o Join([i \in 1..Len(e.val) |-> repr(e.val[i])], <<",", " ">>)
             \o <<"]">>

\* what an f-string makes of a tree value
str(e) == IF IsAtom(e) THEN e.val ELSE repr(e)

-----------------------------------------------------------------------------
(* parser/symbol_parser.py: a tree to a SymbolLibrary.                     *)

\* expr[i] if len(expr) > i and isinstance(expr[i], str) else default
StrAt(expr, i, default) ==
    IF Len(expr.val) > i /\ IsAtom(expr.val[i + 1]) THEN expr.val[i + 1]
    ELSE default

\* the Point of the child (key x y), as _parse_rectangle, _parse_circle and
\* _parse_arc read it
PointOf(expr, key) ==
    LET e == sexpr_get(expr, key)
    IN  IF e # None /\ Len(e.val) >= 3
        THEN Bind(FloatOr(e.val[2], 0), LAMBDA x :
             Bind(FloatOr(e.val[3], 0), LAMBDA y :
             Returned(Point(x, y))))
        ELSE Returned(Point(0, 0))

_parse_position(expr) ==
    LET at == sexpr_get(expr, Str("at"))
    IN  IF at # None /\ Len(at.val) >= 3
        THEN Bind(FloatOr(at.val[2], 0), LAMBDA x :
             Bind(FloatOr(at.val[3], 0), LAMBDA y :
             Bind(IF Len(at.val) > 3 THEN FloatOr(at.val[4], 0)
                  ELSE Returned(0), LAMBDA angle :
             Returned(Position(x, y, angle)))))
        ELSE Returned(Position(0, 0, 0))

_parse_stroke(expr) ==
    LET stroke_expr == sexpr_get(expr, Str("stroke"))
        width == sexpr_get_float(stroke_expr, Str("width"))
        stroke_type == sexpr_get_value(stroke_expr, Str("type"))
    IN  IF stroke_expr = None THEN Stroke(0, Str("default"))
        ELSE Stroke(IF width = None THEN 0 ELSE width.float,
                    IF stroke_type = None \/ stroke_type.val = <<>>
                    THEN Str("default") ELSE stroke_type)

_parse_fill(expr) ==
    LET fill_expr == sexpr_get(expr, Str("fill"))
        fill_type == sexpr_get_value(fill_expr, Str("type"))
    IN  IF fill_expr = None THEN Fill(Str("none"))
        ELSE Fill(IF fill_type = None \/ fill_type.val = <<>>
                  THEN Str("none") ELSE fill_type)

_parse_font(expr) ==
    LET font_expr == sexpr_get(expr, Str("font"))
        size == sexpr_get(font_expr, Str("size"))
        bold == sexpr_has_flag(font_expr, Str("bold"))
        italic == sexpr_has_flag(font_expr, Str("italic"))
    IN  IF font_expr = None THEN Returned(Font(1270000, 1270000, FALSE, FALSE))
        ELSE IF size # None /\ Len(size.val) >= 3
        THEN Bind(FloatOr(size.val[2], 1270000), LAMBDA size_x :
             Bind(FloatOr(size.val[3], 1270000), LAMBDA size_y :
             Returned(Font(size_x, size_y, bold, italic))))
        ELSE Returned(Font(1270000, 1270000, bold, italic))

_parse_effects(expr) ==
    LET effects_expr == sexpr_get(expr, Str("effects"))
        justify == sexpr_get(effects_expr, Str("justify"))
        \* the loop over justify[1:] leaves the last of its atoms that is
        \* one of the words, or "center"
        last(words) ==
            LET items == IF justify = None THEN <<>>
                         ELSE SelectSeq(Tail(justify.val),
                                        LAMBDA item : IsAtom(item) /\ item \in words)
            IN  IF items = <<>> THEN Str("center") ELSE items[Len(items)]
        hide == sexpr_has_flag(effects_expr, Str("hide"))
    IN  IF effects_expr = None
        THEN Returned(Effects(Font(1270000, 1270000, FALSE, FALSE),
                              Str("center"), Str("center"), FALSE))
        ELSE Bind(_parse_font(effects_expr), LAMBDA font :
             Returned(Effects(font, last({Str("left"), Str("right")}),
                              last({Str("top"), Str("bottom")}), hide)))

_parse_property(expr) ==
    LET name == StrAt(expr, 1, Str(""))
        value == StrAt(expr, 2, Str(""))
        id == sexpr_get_int(expr, Str("id"))
        prop_id == IF id = None THEN 0 ELSE id.int
    IN  Bind(_parse_position(expr), LAMBDA position :
        Bind(_parse_effects(expr), LAMBDA effects :
        Returned(Property(name, value, prop_id, position, effects))))

PinDef(number, name, etype, shape, position, length, name_e, number_e, hide) ==
    [number |-> number, name |-> name, electrical_type |-> etype,
     shape |-> shape, position |-> position, length |-> length,
     name_effects |-> name_e, number_effects |-> number_e,
     hide |-> hide]

RECURSIVE PinTypeLoop(_, _, _, _)
\* The while loop of _parse_pin over the atoms that follow "pin".
\* PinElectricalType.from_string returns for every string and raises
\* nothing, so the first try block always ends in its continue: each atom
\* is taken as the electrical type, and the second try block, which would
\* read a shape, is never entered.
PinTypeLoop(expr, idx, electrical_type, shape) ==
    IF idx < Len(expr.val) /\ IsAtom(expr.val[idx + 1])
    THEN PinTypeLoop(expr, idx + 1,
                     PinElectricalType_from_string(expr.val[idx + 1]), shape)
    ELSE [electrical_type |-> electrical_type, shape |-> shape]

\* name / number of a pin with its effects: (name, effects) of the child
\* (key value ...), or ("", None)
PinLabel(expr, key) ==
    LET e == sexpr_get(expr, key)
    IN  IF e # None /\ Len(e.val) >= 2
        THEN Bind(_parse_effects(e), LAMBDA effects :
             Returned([text |-> IF IsAtom(e.val[2]) THEN e.val[2] ELSE Str(""),
                       effects |-> effects]))
        ELSE Returned([text |-> Str(""), effects |-> None])

_parse_pin(expr) ==
    LET kind == PinTypeLoop(expr, 1, Str("unspecified"), Str("line"))
        length_expr == sexpr_get(expr, Str("length"))
        hide == sexpr_has_flag(expr, Str("hide"))
    IN  Bind(_parse_position(expr), LAMBDA position :
        Bind(IF length_expr # None /\ Len(length_expr.val) >= 2
             THEN FloatOr(length_expr.val[2], 2540000)
             ELSE Returned(2540000), LAMBDA length :
        Bind(PinLabel(expr, Str("name")), LAMBDA name :
        Bind(PinLabel(expr, Str("number")), LAMBDA number :
        Returned(PinDef(number.text, name.text, kind.electrical_type,
                        kind.shape, position, length, name.effects,
                        number.effects, hide))))))

\* The graphic elements are records that carry their class.

_parse_rectangle(expr) ==
    Bind(PointOf(expr, Str("start")), LAMBDA start :
    Bind(PointOf(expr, Str("end")), LAMBDA end :
    Returned([class |-> "Rectangle", start |-> start, end |-> end,
              stroke |-> _parse_stroke(expr), fill |-> _parse_fill(expr)])))

_parse_circle(expr) ==
    LET radius_expr == sexpr_get(expr, Str("radius"))
    IN  Bind(PointOf(expr, Str("center")), LAMBDA center :
        Bind(IF radius_expr # None /\ Len(radius_expr.val) >= 2
             THEN FloatOr(radius_expr.val[2], 0)
             ELSE Returned(0), LAMBDA radius :
        Returned([class |-> "Circle", center |-> center, radius |-> radius,
                  stroke |-> _parse_stroke(expr), fill |-> _parse_fill(expr)])))

_parse_arc(expr) ==
    Bind(PointOf(expr, Str("start")), LAMBDA start :
    Bind(PointOf(expr, Str("mid")), LAMBDA mid :
    Bind(PointOf(expr, Str("end")), LAMBDA end :
    Returned([class |-> "Arc", start |-> start, mid |-> mid, end |-> end,
              stroke |-> _parse_stroke(expr), fill |-> _parse_fill(expr)]))))

_parse_polyline(expr) ==
    LET pts_expr == sexpr_get(expr, Str("pts"))
        xy_items ==
            IF pts_expr = None THEN <<>>
            ELSE SelectSeq(Tail(pts_expr.val),
                           LAMBDA item : /\ IsList(item) /\ Len(item.val) >= 3
                                         /\ IsAtom(item.val[1])
                                         /\ item.val[1] = Str("xy"))
        point(item) == Bind(FloatOr(item.val[2], 0), LAMBDA x :
                       Bind(FloatOr(item.val[3], 0), LAMBDA y :
                       Returned(Point(x, y))))
    IN  Bind(Collect(point, xy_items, <<>>), LAMBDA points :
        Returned([class |-> "Polyline", points |-> points,
                  stroke |-> _parse_stroke(expr), fill |-> _parse_fill(expr)]))

_parse_text(expr) ==
    Bind(_parse_position(expr), LAMBDA position :
    Bind(_parse_effects(expr), LAMBDA effects :
    Returned([class |-> "Text", text |-> StrAt(expr, 1, Str("")),
              position |-> position, effects |-> effects])))

RECURSIVE rsplit(_, _, _)
\* s.rsplit(sep, maxsplit) for a one-character sep
rsplit(s, sep, maxsplit) ==
    LET at == {i \in 1..Len(s) : s[i] = sep}
        last == CHOOSE i \in at : \A j \in at : j <= i
    IN  IF maxsplit = 0 \/ at = {} THEN <<s>>
        ELSE Append(rsplit(SubSeq(s, 1, last - 1), sep, maxsplit - 1),
                    SubSeq(s, last + 1, Len(s)))

SymbolUnit(name, unit_index, style_index, pins, graphics) ==
    [name |-> name, unit_index |-> unit_index, style_index |-> style_index,
     pins |-> pins, graphics |-> graphics]

RECURSIVE UnitItems(_, _, _)
\* the loop of _parse_symbol_unit over expr[2:]
UnitItems(items, pins, graphics) ==
    LET item == Head(items)
        element_type == item.val[1]
        rest == Tail(items)
        graphic(g) == UnitItems(rest, pins, Append(graphics, g))
    IN  IF items = <<>> THEN Returned([pins |-> pins, graphics |-> graphics])
        ELSE IF ~IsList(item) \/ Len(item.val) = 0 \/ ~IsAtom(element_type)
        THEN UnitItems(rest, pins, graphics)
        ELSE IF element_type = Str("pin")
        THEN Bind(_parse_pin(item),
                  LAMBDA pin : UnitItems(rest, Append(pins, pin), graphics))
        ELSE IF element_type = Str("rectangle")
        THEN Bind(_parse_rectangle(item), graphic)
        ELSE IF element_type = Str("circle")
        THEN Bind(_parse_circle(item), graphic)
        ELSE IF element_type = Str("arc")
        THEN Bind(_parse_arc(item), graphic)
        ELSE IF element_type = Str("polyline")
        THEN Bind(_parse_polyline(item), graphic)
        ELSE IF element_type = Str("text")
        THEN Bind(_parse_text(item), graphic)
        ELSE UnitItems(rest, pins, graphics)

_parse_symbol_unit(expr) ==
    LET name == StrAt(expr, 1, Str(""))
        parts == rsplit(name.val, "_", 2)
        \* the two assignments of the try block; a ValueError of int() ends
        \* the block where it is raised
        unit == int(parts[Len(parts) - 1])
        style == int(parts[Len(parts)])
        unit_index == IF Len(parts) >= 3 /\ ~unit.raised THEN unit.v ELSE 1
        style_index == IF Len(parts) >= 3 /\ ~unit.raised /\ ~style.raised
                       THEN style.v ELSE 1
    IN  Bind(UnitItems(SubSeq(expr.val, 3, Len(expr.val)), <<>>, <<>>),
             LAMBDA found :
                Returned(SymbolUnit(name, unit_index, style_index,
                                    found.pins, found.graphics)))

SymbolDef(name) ==
    [name |-> name, properties |-> <<>>, units |-> <<>>, in_bom |-> TRUE,
     on_board |-> TRUE, extends |-> None, power |-> FALSE,
     pin_numbers_hide |-> FALSE, pin_names_hide |-> FALSE,
     pin_names_offset |-> 508000]

\* item[1] == "yes" if len(item) > 1 else True
YesFlag(item) ==
    IF Len(item.val) > 1
    THEN IsAtom(item.val[2]) /\ item.val[2] = Str("yes")
    ELSE TRUE

RECURSIVE DefItems(_, _)
\* the loop of _parse_symbol_def over expr[2:]; sym holds its local variables
DefItems(items, sym) ==
    LET item == Head(items)
        element_type == item.val[1]
        rest == Tail(items)
        offset == sexpr_get_float(item, Str("offset"))
    IN  IF items = <<>> THEN Returned(sym)
        ELSE IF ~IsList(item) \/ Len(item.val) = 0 \/ ~IsAtom(element_type)
        THEN DefItems(rest, sym)
        ELSE IF element_type = Str("property")
        THEN Bind(_parse_property(item), LAMBDA prop :
                DefItems(rest, [sym EXCEPT !.properties = Append(@, prop)]))
        ELSE IF element_type = Str("symbol")
        THEN Bind(_parse_symbol_unit(item), LAMBDA unit :
                DefItems(rest, [sym EXCEPT !.units = Append(@, unit)]))
        ELSE IF element_type = Str("in_bom")
        THEN DefItems(rest, [sym EXCEPT !.in_bom = YesFlag(item)])
        ELSE IF element_type = Str("on_board")
        THEN DefItems(rest, [sym EXCEPT !.on_board = YesFlag(item)])
        ELSE IF element_type = Str("extends")
        THEN DefItems(rest, [sym EXCEPT !.extends = StrAt(item, 1, None)])
        ELSE IF element_type = Str("power")
        THEN DefItems(rest, [sym EXCEPT !.power = TRUE])
        ELSE IF element_type = Str("pin_numbers")
        THEN DefItems(rest, [sym EXCEPT !.pin_numbers_hide =
                                            sexpr_has_flag(item, Str("hide"))])
        ELSE IF element_type = Str("pin_names")
        THEN DefItems(rest,
                [sym EXCEPT !.pin_names_hide = sexpr_has_flag(item, Str("hide")),
                            !.pin_names_offset =
                                IF offset # None THEN offset.float ELSE @])
        ELSE DefItems(rest, sym)

_parse_symbol_def(expr) ==
    DefItems(SubSeq(expr.val, 3, Len(expr.val)),
             SymbolDef(StrAt(expr, 1, Str(""))))

\* value or default (the default also replaces an empty string)
OrDefault(value, default) ==
    IF value = None \/ value.val = <<>> THEN default ELSE value

\* mutant of parse_symbol_library: the head of the root is not looked at
parse_symbol_library_anyHead(txt) ==
    LET parse_result == parse_sexpr(txt)
        expr == parse_result.value
        version == OrDefault(sexpr_get_value(expr, Str("version")), Str("20210201"))
        generator == OrDefault(sexpr_get_value(expr, Str("generator")), Str("unknown"))
    IN  IF ~parse_result.ok
        THEN Returned(Err(SymbolParseError(ParseErrorStr(parse_result.error))))
        ELSE IF ~IsList(expr) \/ Len(expr.val) = 0
        THEN Returned(Err(SymbolParseError(<<"Empty or invalid symbol library">>)))
        ELSE Bind(Collect(_parse_symbol_def,
                          sexpr_get_all(expr, Str("symbol")), <<>>),
                  LAMBDA symbols :
                     Returned(Ok([version |-> version, generator |-> generator,
                                  symbols |-> symbols])))

\* The outcome of the call: Returned(Ok(library)), Returned(Err(error)), or
\* the exception that leaves it.
parse_symbol_library(txt) ==
    LET parse_result == parse_sexpr(txt)
        expr == parse_result.value
        version == OrDefault(sexpr_get_value(expr, Str("version")), Str("20210201"))
        generator == OrDefault(sexpr_get_value(expr, Str("generator")), Str("unknown"))
    IN  IF ~parse_result.ok
        THEN Returned(Err(SymbolParseError(ParseErrorStr(parse_result.error))))
        ELSE IF ~IsList(expr) \/ Len(expr.val) = 0
        THEN Returned(Err(SymbolParseError(<<"Empty or invalid symbol library">>)))
        ELSE IF ~(IsAtom(expr.val[1]) /\ expr.val[1] = Str("kicad_symbol_lib"))
        THEN Returned(Err(SymbolParseError(
                <<"Expected kicad_symbol_lib, got ">> \o str(expr.val[1]))))
        ELSE Bind(Collect(_parse_symbol_def,
                          sexpr_get_all(expr, Str("symbol")), <<>>),
                  LAMBDA symbols :
                     Returned(Ok([version |-> version, generator |-> generator,
                                  symbols |-> symbols])))

-----------------------------------------------------------------------------
(* writer/symbol_writer.py: a SymbolLibrary to a tree and to text.         *)

\* mutant of _write_position: the angle is written also when it is 0
_write_position_withAngle(pos) ==
    make_sexpr(<<Str("at"), PyFloat(pos.x), PyFloat(pos.y), PyFloat(pos.angle)>>)

_write_position(pos) ==
    IF pos.angle # 0
    THEN make_sexpr(<<Str("at"), PyFloat(pos.x), PyFloat(pos.y), PyFloat(pos.angle)>>)
    ELSE make_sexpr(<<Str("at"), PyFloat(pos.x), PyFloat(pos.y)>>)

_write_stroke(stroke) ==
    List(<< Str("stroke"),
            make_sexpr(<<Str("width"), PyFloat(stroke.width)>>),
            make_sexpr(<<Str("type"), stroke.type>>),
            IF stroke.color # None
            THEN make_sexpr(<<Str("color"), PyInt(stroke.color.r), PyInt(stroke.color.g),
                              PyInt(stroke.color.b), PyFloat(stroke.color.a)>>)
            ELSE make_sexpr(<<Str("color"), PyInt(0), PyInt(0), PyInt(0), PyInt(0)>>) >>)

_write_fill(fill) ==
    make_sexpr(<<Str("fill"), make_sexpr(<<Str("type"), fill.type>>)>>)

_write_font(effects) ==
    List(<< Str("font"),
            make_sexpr(<<Str("size"), PyFloat(effects.font.size_x),
                         PyFloat(effects.font.size_y)>>) >>
         \o (IF effects.font.bold THEN <<Str("bold")>> ELSE <<>>)
         \o (IF effects.font.italic THEN <<Str("italic")>> ELSE <<>>))

_write_effects(effects) ==
    List(<<Str("effects"), _write_font(effects)>>
         \o (IF effects.justify_h # Str("center") \/ effects.justify_v # Str("center")
             THEN <<List(<<Str("justify")>>
                         \o (IF effects.justify_h # Str("center")
                             THEN <<effects.justify_h>> ELSE <<>>)
                         \o (IF effects.justify_v # Str("center")
                             THEN <<effects.justify_v>> ELSE <<>>))>>
             ELSE <<>>)
         \o (IF effects.hide THEN <<Str("hide")>> ELSE <<>>))

_write_property(prop) ==
    List(<< Str("property"), prop.name, prop.value,
            make_sexpr(<<Str("id"), PyInt(prop.id)>>),
            _write_position(prop.position),
            _write_effects(prop.effects) >>)

_write_pin(pin) ==
    LET \* (effects (font (size 1 1))), written for a label without effects
        UnitEffects ==
            make_sexpr(<<Str("effects"),
                         make_sexpr(<<Str("font"),
                                      make_sexpr(<<Str("size"), PyFloat(1000000),
                                                   PyFloat(1000000)>>)>>)>>)
    IN
    List(<< Str("pin"), pin.electrical_type, pin.shape,
            _write_position(pin.position),
            make_sexpr(<<Str("length"), PyFloat(pin.length)>>),
            List(<< Str("name"), pin.name,
                    IF pin.name_effects # None
                    THEN _write_effects(pin.name_effects) ELSE UnitEffects >>),
            List(<< Str("number"), pin.number,
                    IF pin.number_effects # None
                    THEN _write_effects(pin.number_effects) ELSE UnitEffects >>) >>
         \o (IF pin.hide THEN <<Str("hide")>> ELSE <<>>))

_write_rectangle(rect) ==
    List(<< Str("rectangle"),
            make_sexpr(<<Str("start"), PyFloat(rect.start.x), PyFloat(rect.start.y)>>),
            make_sexpr(<<Str("end"), PyFloat(rect.end.x), PyFloat(rect.end.y)>>),
            _write_stroke(rect.stroke), _write_fill(rect.fill) >>)

_write_circle(circle) ==
    List(<< Str("circle"),
            make_sexpr(<<Str("center"), PyFloat(circle.center.x), PyFloat(circle.center.y)>>),
            make_sexpr(<<Str("radius"), PyFloat(circle.radius)>>),
            _write_stroke(circle.stroke), _write_fill(circle.fill) >>)

_write_arc(arc) ==
    List(<< Str("arc"),
            make_sexpr(<<Str("start"), PyFloat(arc.start.x), PyFloat(arc.start.y)>>),
            make_sexpr(<<Str("mid"), PyFloat(arc.mid.x), PyFloat(arc.mid.y)>>),
            make_sexpr(<<Str("end"), PyFloat(arc.end.x), PyFloat(arc.end.y)>>),
            _write_stroke(arc.stroke), _write_fill(arc.fill) >>)

_write_polyline(poly) ==
    List(<< Str("polyline"),
            List(<<Str("pts")>>
                 \o [i \in 1..Len(poly.points) |->
                        make_sexpr(<<Str("xy"), PyFloat(poly.points[i].x),
                                     PyFloat(poly.points[i].y)>>)]),
            _write_stroke(poly.stroke), _write_fill(poly.fill) >>)

_write_text(txt) ==
    List(<<Str("text"), txt.text, _write_position(txt.position)>>
         \o (IF txt.effects # None THEN <<_write_effects(txt.effects)>> ELSE <<>>))

_write_graphic(graphic) ==
    CASE graphic.class = "Rectangle" -> _write_rectangle(graphic)
      [] graphic.class = "Circle" -> _write_circle(graphic)
      [] graphic.class = "Arc" -> _write_arc(graphic)
      [] graphic.class = "Polyline" -> _write_polyline(graphic)
      [] graphic.class = "Text" -> _write_text(graphic)

_write_symbol_unit(unit) ==
    List(<<Str("symbol"), unit.name>>
         \o [i \in 1..Len(unit.graphics) |-> _write_graphic(unit.graphics[i])]
         \o [i \in 1..Len(unit.pins) |-> _write_pin(unit.pins[i])])

_write_symbol_def(sym) ==
    List(<< Str("symbol"), sym.name,
            make_sexpr(<<Str("in_bom"), IF sym.in_bom THEN Str("yes") ELSE Str("no")>>),
            make_sexpr(<<Str("on_board"), IF sym.on_board THEN Str("yes") ELSE Str("no")>>) >>
         \o (IF sym.extends # None /\ sym.extends.val # <<>>
             THEN <<make_sexpr(<<Str("extends"), sym.extends>>)>> ELSE <<>>)
         \o (IF sym.power THEN <<List(<<Str("power")>>)>> ELSE <<>>)
         \o [i \in 1..Len(sym.properties) |-> _write_property(sym.properties[i])]
         \o (IF sym.pin_numbers_hide
             THEN <<List(<<Str("pin_numbers"), Str("hide")>>)>> ELSE <<>>)
         \o (IF sym.pin_names_hide
             THEN <<List(<<Str("pin_names"), Str("hide")>>)>> ELSE <<>>)
         \o (IF sym.pin_names_offset # 508000
             THEN <<make_sexpr(<<Str("pin_names"),
                                 make_sexpr(<<Str("offset"),
                                              PyFloat(sym.pin_names_offset)>>)>>)>>
             ELSE <<>>)
         \o [i \in 1..Len(sym.units) |-> _write_symbol_unit(sym.units[i])])

symbol_library_to_sexpr(lib) ==
    List(<< Str("kicad_symbol_lib"),
            make_sexpr(<<Str("version"), lib.version>>),
            make_sexpr(<<Str("generator"), lib.generator>>) >>
         \o [i \in 1..Len(lib.symbols) |-> _write_symbol_def(lib.symbols[i])])

write_symbol_library(lib) == write_sexpr(symbol_library_to_sexpr(lib))

-----------------------------------------------------------------------------
(* parser/schematic_parser.py: a tree to a Schematic.  _parse_position,    *)
(* _parse_stroke, _parse_font, _parse_effects and _parse_property are the  *)
(* same statements as in symbol_parser.py.  UUID.generate() draws a random *)
(* uuid4: the value is named by the call that drew it, site = <<seed, ...  *)
(* the place of the element in the tree>>, the seed standing for the       *)
(* random source of one parse_schematic call, so that two draws are equal  *)
(* only if they are the same draw.                                         *)

SchematicParseError(message) == [message |-> message, context |-> <<>>]

_parse_uuid(expr, site) ==
    LET uuid_val == sexpr_get_value(expr, Str("uuid"))
    IN  IF uuid_val # None /\ uuid_val.val # <<>>
        THEN [value |-> uuid_val]
        ELSE [value |-> [uuid4 |-> site]]

\* LabelShape and SheetPinType have the same members and the same mapping
LabelShape ==
    { Str("input"), Str("output"), Str("bidirectional"), Str("tri_state"),
      Str("passive") }

LabelShape_from_string(s) ==
    IF Atom(lower(s.val)) \in LabelShape THEN Atom(lower(s.val))
    ELSE Str("passive")

_parse_point(expr) ==
    IF Len(expr.val) >= 3
    THEN Bind(FloatOr(expr.val[2], 0), LAMBDA x :
         Bind(FloatOr(expr.val[3], 0), LAMBDA y :
         Returned(Point(x, y))))
    ELSE Returned(Point(0, 0))

\* Wire(start, end, stroke, uuid).  item[0] of the list comprehension is
\* read of every list in pts[1:], the empty ones included.
_parse_wire(expr, site) ==
    LET pts == sexpr_get(expr, Str("pts"))
        lists == IF pts = None THEN <<>> ELSE SelectSeq(Tail(pts.val), IsList)
        xy_list == SelectSeq(lists, LAMBDA item : IsAtom(item.val[1])
                                                  /\ item.val[1] = Str("xy"))
        wire(start, end) == [start |-> start, end |-> end,
                             stroke |-> _parse_stroke(expr),
                             uuid |-> _parse_uuid(expr, site)]
    IN  IF \E i \in 1..Len(lists) : Len(lists[i].val) = 0
        THEN Raise("IndexError")
        ELSE IF Len(xy_list) >= 2
        THEN Bind(_parse_point(xy_list[1]), LAMBDA start :
             Bind(_parse_point(xy_list[2]), LAMBDA end :
             Returned(wire(start, end))))
        ELSE Returned(wire(Point(0, 0), Point(0, 0)))

\* Bus(start, end, stroke, uuid): the statements of _parse_wire
_parse_bus(expr, site) == _parse_wire(expr, site)

_parse_junction(expr, site) ==
    LET diameter == sexpr_get_float(expr, Str("diameter"))
    IN  Bind(_parse_position(expr), LAMBDA position :
        Returned([position |-> position,
                  diameter |-> IF diameter = None THEN 0 ELSE diameter.float,
                  color |-> <<0, 0, 0, 0>>,
                  uuid |-> _parse_uuid(expr, site)]))

_parse_no_connect(expr, site) ==
    Bind(_parse_position(expr), LAMBDA position :
    Returned([position |-> position, uuid |-> _parse_uuid(expr, site)]))

\* Label(text, position, effects, uuid); _parse_text builds a Text of the
\* same fields with the same statements
_parse_label(expr, site) ==
    Bind(_parse_position(expr), LAMBDA position :
    Bind(_parse_effects(expr), LAMBDA effects :
    Returned([text |-> StrAt(expr, 1, Str("")), position |-> position,
              effects |-> effects, uuid |-> _parse_uuid(expr, site)])))

\* HierarchicalLabel(text, shape, position, effects, uuid)
_parse_hierarchical_label(expr, site) ==
    LET shape_val == sexpr_get_value(expr, Str("shape"))
        shape == IF shape_val # None /\ shape_val.val # <<>>
                 THEN LabelShape_from_string(shape_val) ELSE Str("passive")
    IN  Bind(_parse_position(expr), LAMBDA position :
        Bind(_parse_effects(expr), LAMBDA effects :
        Returned([text |-> StrAt(expr, 1, Str("")), shape |-> shape,
                  position |-> position, effects |-> effects,
                  uuid |-> _parse_uuid(expr, site)])))

\* GlobalLabel: the fields of a HierarchicalLabel and the properties
_parse_global_label(expr, site) ==
    Bind(_parse_hierarchical_label(expr, site), LAMBDA label :
    Bind(Collect(_parse_property, sexpr_get_all(expr, Str("property")), <<>>),
         LAMBDA properties :
    Returned([text |-> label.text, shape |-> label.shape,
              position |-> label.position, effects |-> label.effects,
              uuid |-> label.uuid, properties |-> properties])))

_parse_symbol_pin(expr, site) ==
    [number |-> StrAt(expr, 1, Str("")), uuid |-> _parse_uuid(expr, site)]

\* expr[1] == "yes" of the child (key ...) when it has a second item
YesChild(expr, key) ==
    LET e == sexpr_get(expr, key)
    IN  IF e # None /\ Len(e.val) > 1
        THEN IsAtom(e.val[2]) /\ e.val[2] = Str("yes")
        ELSE TRUE

_parse_symbol_instance(expr, site) ==
    LET unit == sexpr_get_int(expr, Str("unit"))
        mirror_expr == sexpr_get(expr, Str("mirror"))
        pin_exprs == sexpr_get_all(expr, Str("pin"))
    IN  Bind(_parse_position(expr), LAMBDA position :
        Bind(Collect(_parse_property, sexpr_get_all(expr, Str("property")), <<>>),
             LAMBDA properties :
        Returned(
            [lib_id |-> OrDefault(sexpr_get_value(expr, Str("lib_id")), Str("")),
             position |-> position,
             unit |-> IF unit = None \/ unit.int = 0 THEN 1 ELSE unit.int,
             mirror |-> IF mirror_expr # None /\ Len(mirror_expr.val) > 1
                        THEN mirror_expr.val[2] ELSE Str(""),
             properties |-> properties,
             pins |-> [j \in 1..Len(pin_exprs) |->
                          _parse_symbol_pin(pin_exprs[j], Append(site, j))],
             uuid |-> _parse_uuid(expr, site),
             in_bom |-> YesChild(expr, Str("in_bom")),
             on_board |-> YesChild(expr, Str("on_board"))])))

\* p.expr is the (pin ...) list, p.site names its uuid draw
_parse_sheet_pin(p) ==
    Bind(_parse_position(p.expr), LAMBDA position :
    Bind(_parse_effects(p.expr), LAMBDA effects :
    Returned([name |-> StrAt(p.expr, 1, Str("")),
              shape |-> LabelShape_from_string(StrAt(p.expr, 2, Str("passive"))),
              position |-> position, effects |-> effects,
              uuid |-> _parse_uuid(p.expr, p.site)])))

_parse_sheet(expr, site) ==
    LET size_expr == sexpr_get(expr, Str("size"))
        pin_exprs == sexpr_get_all(expr, Str("pin"))
    IN  Bind(_parse_position(expr), LAMBDA position :
        Bind(IF size_expr # None /\ Len(size_expr.val) >= 3
             THEN Bind(FloatOr(size_expr.val[2], 100000000), LAMBDA w :
                  Bind(FloatOr(size_expr.val[3], 100000000), LAMBDA h :
                  Returned(Point(w, h))))
             ELSE Returned(Point(100000000, 100000000)), LAMBDA size :
        Bind(Collect(_parse_property, sexpr_get_all(expr, Str("property")), <<>>),
             LAMBDA properties :
        Bind(Collect(_parse_sheet_pin,
                     [j \in 1..Len(pin_exprs) |->
                         [expr |-> pin_exprs[j], site |-> Append(site, j)]], <<>>),
             LAMBDA pins :
        Returned([position |-> position, size |-> size,
                  properties |-> properties, pins |-> pins,
                  stroke |-> _parse_stroke(expr), fill |-> <<0, 0, 0, 0>>,
                  uuid |-> _parse_uuid(expr, site)])))))

RECURSIVE TitleComments(_, _)
\* the loop of _parse_title_block over the items of expr
TitleComments(items, comments) ==
    LET item == Head(items)
    IN  IF items = <<>> THEN Returned(comments)
        ELSE IF IsList(item) /\ Len(item.val) >= 3 /\ IsAtom(item.val[1])
                /\ item.val[1] = Str("comment")
        THEN Bind(IF IsAtom(item.val[2]) THEN int(item.val[2].val)
                  ELSE Returned(0), LAMBDA idx :
                TitleComments(Tail(items),
                    IF 1 <= idx /\ idx <= 4
                    THEN [comments EXCEPT ![idx] = StrAt(item, 2, Str(""))]
                    ELSE comments))
        ELSE TitleComments(Tail(items), comments)

_parse_title_block(expr) ==
    Bind(TitleComments(expr.val, <<Str(""), Str(""), Str(""), Str("")>>),
         LAMBDA comments :
    Returned([title |-> OrDefault(sexpr_get_value(expr, Str("title")), Str("")),
              date |-> OrDefault(sexpr_get_value(expr, Str("date")), Str("")),
              revision |-> OrDefault(sexpr_get_value(expr, Str("rev")), Str("")),
              company |-> OrDefault(sexpr_get_value(expr, Str("company")), Str("")),
              comment1 |-> comments[1], comment2 |-> comments[2],
              comment3 |-> comments[3], comment4 |-> comments[4]]))

\* SchematicPage(size): A4, 297 by 210, unless the paper is named
_parse_page(expr) ==
    [size |-> OrDefault(sexpr_get_value(expr, Str("paper")), Str("A4")),
     width |-> 297000000, height |-> 210000000, portrait |-> FALSE]

RECURSIVE SchematicItems(_, _, _, _)
\* the loop of parse_schematic over the items of expr, item i being
\* Head(items); sch holds the lists the loop appends to
SchematicItems(items, i, seed, sch) ==
    LET item == Head(items)
        element_type == item.val[1]
        site == <<seed, i>>
        rest(s) == SchematicItems(Tail(items), i + 1, seed, s)
        append(field, r) ==
            Bind(r, LAMBDA v : rest([sch EXCEPT ![field] = Append(@, v)]))
    IN  IF items = <<>> THEN Returned(sch)
        ELSE IF ~IsList(item) \/ Len(item.val) = 0 \/ ~IsAtom(element_type)
        THEN rest(sch)
        ELSE IF element_type = Str("wire")
        THEN append("wires", _parse_wire(item, site))
        ELSE IF element_type = Str("bus")
        THEN append("buses", _parse_bus(item, site))
        ELSE IF element_type = Str("junction")
        THEN append("junctions", _parse_junction(item, site))
        ELSE IF element_type = Str("no_connect")
        THEN append("no_connects", _parse_no_connect(item, site))
        ELSE IF element_type = Str("label")
        THEN append("labels", _parse_label(item, site))
        ELSE IF element_type = Str("global_label")
        THEN append("global_labels", _parse_global_label(item, site))
        ELSE IF element_type = Str("hierarchical_label")
        THEN append("hierarchical_labels", _parse_hierarchical_label(item, site))
        ELSE IF element_type = Str("symbol")
        THEN append("symbols", _parse_symbol_instance(item, site))
        ELSE IF element_type = Str("sheet")
        THEN append("sheets", _parse_sheet(item, site))
        ELSE IF element_type = Str("text")
        THEN append("texts", _parse_label(item, site))
        ELSE rest(sch)

\* The outcome of the call: Returned(Ok(schematic)), Returned(Err(error)), or
\* the exception that leaves it.
parse_schematic(txt, seed) ==
    LET parse_result == parse_sexpr(txt)
        expr == parse_result.value
        tb_expr == sexpr_get(expr, Str("title_block"))
        empty == [title |-> Str(""), date |-> Str(""), revision |-> Str(""),
                  company |-> Str(""), comment1 |-> Str(""), comment2 |-> Str(""),
                  comment3 |-> Str(""), comment4 |-> Str("")]
    IN  IF ~parse_result.ok
        THEN Returned(Err(SchematicParseError(ParseErrorStr(parse_result.error))))
        ELSE IF ~IsList(expr) \/ Len(expr.val) = 0
        THEN Returned(Err(SchematicParseError(<<"Empty or invalid schematic">>)))
        ELSE IF ~(IsAtom(expr.val[1]) /\ expr.val[1] = Str("kicad_sch"))
        THEN Returned(Err(SchematicParseError(
                <<"Expected kicad_sch, got ">> \o str(expr.val[1]))))
        ELSE
        Bind(IF tb_expr # None THEN _parse_title_block(tb_expr)
             ELSE Returned(empty), LAMBDA title_block :
        Bind(SchematicItems(expr.val, 1, seed,
                [version |-> OrDefault(sexpr_get_value(expr, Str("version")),
                                       Str("20231120")),
                 generator |-> OrDefault(sexpr_get_value(expr, Str("generator")),
                                         Str("unknown")),
                 uuid |-> _parse_uuid(expr, <<seed, 0>>),
                 page |-> _parse_page(expr),
                 title_block |-> title_block,
                 lib_symbols |-> <<>>, wires |-> <<>>, buses |-> <<>>,
                 bus_entries |-> <<>>, junctions |-> <<>>, no_connects |-> <<>>,
                 labels |-> <<>>, global_labels |-> <<>>,
                 hierarchical_labels |-> <<>>, power_labels |-> <<>>,
                 symbols |-> <<>>, sheets |-> <<>>, texts |-> <<>>]),
             LAMBDA schematic : Returned(Ok(schematic))))

-----------------------------------------------------------------------------
(* The calls parse_sexpr(text) and parse_sexpr_file(text), step by step.   *)

Init ==
    /\ text \in Texts
    /\ mode \in {"parse", "parse_all"}
    /\ pc = "tokenize"
    /\ tz = TokenizeStart(text)
    /\ ps = Parser(<<>>)
    /\ result = None
    /\ doc = None
    /\ out = None

\* an iteration of tokenize() that leaves the loop running
TokenizeStep ==
    /\ pc = "tokenize"
    /\ ~TokenizeIter(tz).done
    /\ tz' = TokenizeIter(tz)
    /\ UNCHANGED <<text, mode, pc, ps, result, doc, out>>

\* tokenize() returns Err: parse_sexpr returns it
TokenizeFail ==
    /\ pc = "tokenize"
    /\ TokenizeIter(tz).done
    /\ ~TokenizeIter(tz).res.ok
    /\ tz' = TokenizeIter(tz)
    /\ result' = Err(tz'.res.error)
    /\ pc' = "done"
    /\ UNCHANGED <<text, mode, ps, doc, out>>

\* tokenize() returns Ok(tokens): a Parser is made of them
TokenizeDone ==
    /\ pc = "tokenize"
    /\ TokenizeIter(tz).done
    /\ TokenizeIter(tz).res.ok
    /\ tz' = TokenizeIter(tz)
    /\ ps' = Parser(tz'.res.value)
    /\ pc' = "parse"
    /\ UNCHANGED <<text, mode, result, doc, out>>

\* a step of the parser that does not return
ParseStep ==
    /\ pc = "parse"
    /\ ~ParseIter(ps, mode).done
    /\ ps' = ParseIter(ps, mode)
    /\ UNCHANGED <<text, mode, pc, tz, result, doc, out>>

\* parse() / parse_all() returns
ParseReturn ==
    /\ pc = "parse"
    /\ ParseIter(ps, mode).done
    /\ ps' = ParseIter(ps, mode)
    /\ result' = ps'.res
    /\ pc' = "done"
    /\ UNCHANGED <<text, mode, tz, doc, out>>

Next ==
    \/ TokenizeStep
    \/ TokenizeFail
    \/ TokenizeDone
    \/ ParseStep
    \/ ParseReturn

Spec == Init /\ [][Next]_vars

\* longest enumerated text of the calls that are followed to their return
MaxScan == 3

InitRuns ==
    /\ text \in UNION {TextsOfLen(n) : n \in 0..MaxScan} \cup SampleTexts
    /\ mode \in {"parse", "parse_all"}
    /\ pc = "tokenize"
    /\ tz = TokenizeStart(text)
    /\ ps = Parser(<<>>)
    /\ result = None
    /\ doc = None
    /\ out = None

\* The call keeps running: a step that can be taken is taken.
SpecRuns == InitRuns /\ [][Next]_vars /\ WF_vars(Next)

-----------------------------------------------------------------------------
(* The files the decoders are run on.  A file is written from a tree by    *)
(* write_sexpr; the trees are a symbol library of one symbol with one unit *)
(* and a schematic of a few elements, every sub-form drawn from a small    *)
(* set of well-formed and malformed variants.                              *)

\* random sources a parse_schematic call is run with
MaxSeed == 2
Seeds == 1..MaxSeed

\* the form (head item ...)
Form(head, items) == List(<<Str(head)>> \o items)

\* (effects (font (size 1.27 1.27)))
SomeEffects ==
    Form("effects", <<Form("font", <<Form("size", <<Str("1.27"), Str("1.27")>>)>>)>>)

\* what follows the leading atoms of a pin whose every sub-form is present
FullPinTail ==
    << Form("at", <<Str("0"), Str("0"), Str("0")>>),
       Form("length", <<Str("2.54")>>),
       Form("name", <<Str("A"), SomeEffects>>),
       Form("number", <<Str("1"), SomeEffects>>) >>

PinTails ==
    { FullPinTail,
      << Form("at", <<Str("0"), Str("0")>>) >>,
      << Form("at", <<Str("a"), Str("0")>>) >>,
      << Form("at", <<Str("0"), Str("0")>>), Form("length", <<Str("x")>>) >> }

\* the positional atoms after the pin head: none, a type, a type and a shape
PinLeadings ==
    {<<>>} \cup {<<T>> : T \in PinElectricalType}
           \cup {<<T, S>> : T \in PinElectricalType, S \in PinShape}

Pin(leading, tail) == Form("pin", leading \o tail)

SymbolFlags ==
    { <<>>,
      << Form("pin_names", <<Form("offset", <<Str("1.016")>>)>>) >>,
      << Form("pin_names", <<Str("hide")>>) >>,
      << Form("pin_names", <<Form("offset", <<Str("1.016")>>), Str("hide")>>) >>,
      << Form("pin_numbers", <<Str("hide")>>) >>,
      << Form("extends", <<Str("")>>) >>,
      << Form("extends", <<Str("Base")>>) >>,
      << Form("in_bom", <<Str("no")>>), Form("on_board", <<Str("no")>>) >>,
      << Form("power", <<>>) >>,
      << Form("property", <<Str("Reference"), Str("U"), Form("id", <<Str("0")>>),
                            Form("at", <<Str("0"), Str("0"), Str("0")>>),
                            SomeEffects>>) >>,
      << Form("property", <<Str(";n"), Str("v"), Form("id", <<Str("1")>>),
                            Form("at", <<Str("0"), Str("0"), Str("0")>>),
                            SomeEffects>>) >>,
      << Form("property", <<Str("Value"), Str("x y"), Form("id", <<Str("x")>>)>>) >> }

Graphics ==
    { Form("rectangle", <<Form("start", <<Str("-1"), Str("1")>>),
                          Form("end", <<Str("1"), Str("-1")>>),
                          Form("stroke", <<Form("width", <<Str("0.254")>>),
                                           Form("type", <<Str("default")>>)>>),
                          Form("fill", <<Form("type", <<Str("background")>>)>>)>>),
      Form("circle", <<Form("center", <<Str("0"), Str("0")>>),
                       Form("radius", <<Str("r")>>)>>),
      Form("polyline", <<Form("pts", <<Form("xy", <<Str("0"), Str("0")>>),
                                       Form("xy", <<Str("1"), Str("1")>>)>>)>>),
      Form("text", <<Str("hello"), Form("at", <<Str("0"), Str("0"), Str("0")>>),
                     SomeEffects>>) }

\* a library of the symbol R with the unit R_1_1
Library(symbol_items, unit_items) ==
    Form("kicad_symbol_lib",
         << Form("version", <<Str("20211014")>>),
            Form("generator", <<Str("kicad_symbol_editor")>>),
            Form("symbol", <<Str("R")>> \o symbol_items
                           \o <<Form("symbol", <<Str("R_1_1")>> \o unit_items)>>) >>)

LibraryDocuments ==
    {Library(<<>>, <<Pin(l, FullPinTail)>>) : l \in PinLeadings}
    \cup {Library(f, <<Pin(<<Str("unspecified"), Str("line")>>, t)>>) :
             f \in SymbolFlags, t \in PinTails}
    \cup {Library(<<>>, <<g>>) : g \in Graphics}
    \cup {List(<<>>), Str("kicad_symbol_lib"), Form("kicad_symbol_lib", <<>>)}

\* the points of a (pts ...) form
PtsForms ==
    { << Form("xy", <<Str("0"), Str("0")>>), Form("xy", <<Str("2.54"), Str("0")>>) >>,
      << Form("xy", <<Str("0"), Str("0")>>) >>,
      << List(<<>>), Form("xy", <<Str("0"), Str("0")>>),
         Form("xy", <<Str("2.54"), Str("0")>>) >>,
      << Form("xy", <<Str("a"), Str("0")>>), Form("xy", <<Str("2.54"), Str("0")>>) >> }

\* nothing, or the (uuid ...) sub-form of an element
UuidForms == {<<>>, <<Form("uuid", <<Str("5b2b4e6c-0001")>>)>>}

Elements ==
    {Form(head, <<Form("pts", p)>> \o u) :
        head \in {"wire", "bus"}, p \in PtsForms, u \in UuidForms}
    \cup {Form(head, <<Form("at", <<x, Str("0")>>)>> \o u) :
        head \in {"junction", "no_connect"}, x \in {Str("0"), Str("a")},
        u \in UuidForms}
    \cup {Form("label", <<Str("L"), Form("at", <<Str("0"), Str("0"), Str("0")>>),
                          SomeEffects>> \o u) : u \in UuidForms}
    \cup {Form("global_label", <<Str("G"), Form("shape", <<s>>),
                                 Form("at", <<Str("0"), Str("0"), Str("0")>>)>> \o u) :
        s \in {Str("input"), Str("tri_state"), Str("line")}, u \in UuidForms}
    \cup {Form("symbol", <<Form("lib_id", <<Str("Device:R")>>),
                           Form("at", <<Str("0"), Str("0"), Str("0")>>),
                           Form("unit", <<Str("1")>>),
                           Form("pin", <<Str("1")>>),
                           Form("pin", <<Str("2")>> \o u)>> \o u) : u \in UuidForms}
    \cup {Form("sheet", <<Form("at", <<Str("0"), Str("0")>>),
                          Form("size", <<Str("10"), h>>),
                          Form("pin", <<Str("P"), Str("input"),
                                        Form("at", <<Str("0"), Str("0"), Str("0")>>)>>)>>
                        \o u) : h \in {Str("20"), Str("x")}, u \in UuidForms}

\* title blocks whose comment has the index i
TitleBlocks ==
    {Form("title_block", <<Form("title", <<Str("T")>>),
                           Form("comment", <<i, Str("c")>>)>>) :
        i \in {Str("1"), Str("4"), Str("5"), Str("x")}}

Schematic(uuid, items) ==
    Form("kicad_sch",
         << Form("version", <<Str("20231120")>>),
            Form("generator", <<Str("eeschema")>>) >> \o uuid \o items)

SchematicDocuments ==
    {Schematic(u, <<e>>) : u \in UuidForms, e \in Elements}
    \cup {Schematic(u, <<t>>) : u \in UuidForms, t \in TitleBlocks}
    \cup {Schematic(<<>>, <<t, e>>) : t \in TitleBlocks, e \in Elements}
    \cup {Schematic(u, <<>>) : u \in UuidForms}

\* roots that are no library and no schematic, and roots without children
RootDocuments ==
    { List(<<List(<<Str("a")>>), Str("b")>>), Form("lib", <<Form("version", <<Str("1")>>)>>),
      Str("kicad_sch"), Form("kicad_sch", <<>>) }

\* names of the unit of a symbol
UnitNames ==
    { "R_1_1", "R_2_3", "R_2_x", "R_x_2", "R_x_y", "R", "R_1", "A_B_3_4", "R__1",
      "R_1_", "_1_2", "R_-1_+2" }

\* a library of the symbol R with one unit of the given name
UnitLibrary(name) ==
    Form("kicad_symbol_lib",
         << Form("version", <<Str("20211014")>>),
            Form("generator", <<Str("kicad_symbol_editor")>>),
            Form("symbol", <<Str("R"),
                             Form("symbol", <<Str(name),
                                              Pin(<<Str("passive"), Str("line")>>,
                                                  FullPinTail)>>)>>) >>)

UnitDocuments == {UnitLibrary(n) : n \in UnitNames}

\* words that are no member of an enumeration
UnknownWords == {"totally_unknown", "Inputs", ""}

\* a library whose pin has the type atom w, and schematics whose global
\* label, hierarchical label or sheet pin has the shape atom w
PinOfType(w, shape) == Library(<<>>, <<Pin(<<Str(w)>> \o shape, FullPinTail)>>)

LabelOfShape(head, w) ==
    Schematic(<<>>, <<Form(head, <<Str("N"), Form("shape", <<Str(w)>>),
                                   Form("at", <<Str("0"), Str("0"), Str("0")>>)>>)>>)

SheetPinOfShape(w) ==
    Schematic(<<>>, <<Form("sheet", <<Form("at", <<Str("0"), Str("0")>>),
                                      Form("size", <<Str("10"), Str("20")>>),
                                      Form("pin", <<Str("P"), Str(w),
                                                    Form("at", <<Str("0"), Str("0"),
                                                                 Str("0")>>)>>)>>)>>)

FallbackDocuments ==
    {PinOfType(w, s) : w \in UnknownWords, s \in {<<>>, <<Str("line")>>, <<Str("inverted")>>}}
    \cup {LabelOfShape(h, w) : h \in {"global_label", "hierarchical_label"}, w \in UnknownWords}
    \cup {SheetPinOfShape(w) : w \in UnknownWords}

-----------------------------------------------------------------------------
(* A file is decoded by parse_symbol_library or by parse_schematic; a      *)
(* library that was decoded is encoded by write_symbol_library, and the    *)
(* text so written is decoded again.                                       *)

InitFiles ==
    /\ doc \in LibraryDocuments \cup SchematicDocuments \cup RootDocuments
                \cup UnitDocuments \cup FallbackDocuments
    /\ text = write_sexpr(doc)
    /\ mode \in {"symbol_library", "schematic"}
    /\ pc = "decode"
    /\ tz = TokenizeStart(text)
    /\ ps = Parser(<<>>)
    /\ result = None
    /\ out = None

\* parse_symbol_library(text)
DecodeLibrary ==
    /\ pc = "decode"
    /\ mode = "symbol_library"
    /\ result' = parse_symbol_library(text)
    /\ pc' = IF ~result'.raised /\ result'.v.ok THEN "encode" ELSE "done"
    /\ UNCHANGED <<text, mode, tz, ps, doc, out>>

\* parse_schematic(text), its uuids drawn from one of the random sources
DecodeSchematic ==
    /\ pc = "decode"
    /\ mode = "schematic"
    /\ \E seed \in Seeds : result' = parse_schematic(text, seed)
    /\ pc' = "done"
    /\ UNCHANGED <<text, mode, tz, ps, doc, out>>

\* write_symbol_library(M) of the library M that was decoded
EncodeLibrary ==
    /\ pc = "encode"
    /\ out' = [text |-> write_symbol_library(result.v.value), result |-> None]
    /\ pc' = "redecode"
    /\ UNCHANGED <<text, mode, tz, ps, result, doc>>

\* parse_symbol_library of the text that was written
RedecodeLibrary ==
    /\ pc = "redecode"
    /\ out' = [out EXCEPT !.result = parse_symbol_library(out.text)]
    /\ pc' = "done"
    /\ UNCHANGED <<text, mode, tz, ps, result, doc>>

NextFiles ==
    \/ DecodeLibrary
    \/ DecodeSchematic
    \/ EncodeLibrary
    \/ RedecodeLibrary

SpecFiles == InitFiles /\ [][NextFiles]_vars

-----------------------------------------------------------------------------
(* A tree is written by write_sexpr and the written text is read back by   *)
(* parse_sexpr.  The trees are the atoms of every enumerated text and      *)
(* lists of a head and a few items, some of them wide enough to take the   *)
(* inline rendering of a list across the 80 characters of a line.          *)

\* most items that follow the head of an enumerated list
MaxItems == 3

\* an atom of n characters
Wide(n) == Atom([i \in 1..n |-> "w"])

LayoutHeads == {Str("k"), Str("at"), List(<<Str("b")>>)}

LayoutItems ==
    { Str("a"), Str(""), Wide(37), Wide(38), List(<<>>), List(<<Str("b")>>),
      Form("k", <<Str("a"), List(<<Str("b")>>), Str("c"), Str("d")>>) }

RECURSIVE ItemsOfLen(_)
ItemsOfLen(n) ==
    IF n = 0 THEN {<<>>}
    ELSE {Append(s, e) : s \in ItemsOfLen(n - 1), e \in LayoutItems}

LayoutTrees ==
    {List(<<>>)}
    \cup {List(<<h>> \o s) : h \in LayoutHeads,
                             s \in UNION {ItemsOfLen(n) : n \in 0..MaxItems}}

WriteTrees == {Atom(t) : t \in Texts} \cup LayoutTrees

InitWrite ==
    /\ doc \in WriteTrees
    /\ text = <<>>
    /\ mode = "parse"
    /\ pc = "write"
    /\ tz = TokenizeStart(<<>>)
    /\ ps = Parser(<<>>)
    /\ result = None
    /\ out = None

\* write_sexpr(doc)
Write ==
    /\ pc = "write"
    /\ text' = write_sexpr(doc)
    /\ pc' = "reparse"
    /\ UNCHANGED <<mode, tz, ps, result, doc, out>>

\* parse_sexpr of the written text
Reparse ==
    /\ pc = "reparse"
    /\ result' = parse_sexpr(text)
    /\ pc' = "done"
    /\ UNCHANGED <<text, mode, tz, ps, doc, out>>

NextWrite ==
    \/ Write
    \/ Reparse

SpecWrite == InitWrite /\ [][NextWrite]_vars

-----------------------------------------------------------------------------
(* The model values write_symbol_library is run on: a library of one       *)
(* symbol with one unit that holds one pin, one text or one other graphic, *)
(* or of one symbol with one property.  Optional fields are left at the    *)
(* defaults of the dataclasses or set.                                     *)

\* FONT_DEFAULT and EFFECTS_DEFAULT of types/primitives.py
EFFECTS_DEFAULT ==
    Effects(Font(1270000, 1270000, FALSE, FALSE), Str("center"), Str("center"), FALSE)

\* effects no field of which is the default
BoldLeftHidden ==
    Effects(Font(2000000, 2540000, TRUE, TRUE), Str("left"), Str("top"), TRUE)

\* the coordinates and angles of the positions, in millionths
Abscissas == {0, 1000000, 2540000, -1270000}
Ordinates == {0, 2000000}
Angles == {0, 90000000, 180500000, -90000000}
Positions == {Position(x, y, a) : x \in Abscissas, y \in Ordinates, a \in Angles}

Color(r, g, b, a) == [r |-> r, g |-> g, b |-> b, a |-> a]

Strokes ==
    { Stroke(0, Str("default")),
      [Stroke(254000, Str("dash")) EXCEPT !.color = Color(255, 0, 0, 1000000)] }

\* PinDef("1", "A", position=p, name_effects=e, number_effects=e)
PinAt(p, e) ==
    PinDef(Str("1"), Str("A"), Str("unspecified"), Str("line"), p, 2540000, e, e, FALSE)

\* Text("hello", p, e)
TextAt(p, e) == [class |-> "Text", text |-> Str("hello"), position |-> p, effects |-> e]

Shapes ==
    UNION {
      { [class |-> "Rectangle", start |-> Point(0, 0), end |-> Point(2540000, 1000000),
         stroke |-> s, fill |-> Fill(Str("none"))],
        [class |-> "Circle", center |-> Point(0, 0), radius |-> 1270000,
         stroke |-> s, fill |-> Fill(Str("none"))],
        [class |-> "Arc", start |-> Point(0, 0), mid |-> Point(1000000, 1000000),
         end |-> Point(2000000, 0), stroke |-> s, fill |-> Fill(Str("background"))],
        [class |-> "Polyline", points |-> <<Point(0, 0), Point(1000000, -1270000)>>,
         stroke |-> s, fill |-> Fill(Str("none"))] } : s \in Strokes }

\* SymbolLibrary(symbols=(SymbolDef("R", properties, units),))
LibraryOf(properties, units) ==
    [version |-> Str("20210201"), generator |-> Str("kicad_lib"),
     symbols |-> <<[SymbolDef(Str("R")) EXCEPT !.properties = properties,
                                               !.units = units]>>]

UnitOf(pins, graphics) == SymbolUnit(Str("R_1_1"), 1, 1, pins, graphics)

PinModel(p, e) == LibraryOf(<<>>, <<UnitOf(<<PinAt(p, e)>>, <<>>)>>)
TextModel(p, e) == LibraryOf(<<>>, <<UnitOf(<<>>, <<TextAt(p, e)>>)>>)
PropertyModel(p, e) ==
    LibraryOf(<<Property(Str("Reference"), Str("R"), 0, p, e)>>, <<>>)
ShapeModel(g) == LibraryOf(<<>>, <<UnitOf(<<>>, <<g>>)>>)

Models ==
    {PinModel(p, e) : p \in Positions, e \in {None, BoldLeftHidden}}
    \cup {TextModel(p, e) : p \in Positions, e \in {None, EFFECTS_DEFAULT, BoldLeftHidden}}
    \cup {PropertyModel(p, e) : p \in Positions, e \in {EFFECTS_DEFAULT}}
    \cup {ShapeModel(g) : g \in Shapes}

-----------------------------------------------------------------------------
(* write_symbol_library(M) of a constructed library M; the text it wrote   *)
(* is read by parse_sexpr.                                                 *)

InitModels ==
    /\ doc \in Models
    /\ text = <<>>
    /\ mode = "parse"
    /\ pc = "write_library"
    /\ tz = TokenizeStart(<<>>)
    /\ ps = Parser(<<>>)
    /\ result = None
    /\ out = None

\* write_symbol_library(M)
WriteLibrary ==
    /\ pc = "write_library"
    /\ text' = write_symbol_library(doc)
    /\ pc' = "read_library"
    /\ UNCHANGED <<mode, tz, ps, result, doc, out>>

\* parse_sexpr of the text that was written
ReadLibrary ==
    /\ pc = "read_library"
    /\ result' = parse_sexpr(text)
    /\ pc' = "done"
    /\ UNCHANGED <<text, mode, tz, ps, doc, out>>

NextModels == WriteLibrary \/ ReadLibrary

SpecModels == InitModels /\ [][NextModels]_vars

-----------------------------------------------------------------------------
(* The trees and keys the helpers sexpr_get_all, sexpr_get,                *)
(* sexpr_get_value and sexpr_get_int are called with.                      *)

\* most children of an enumerated tree
MaxChildren == 3

QueryKeys == {Str("k"), Str("j")}

\* what may follow the key in a child: integers as Python reads them, and
\* texts that are no integer
Numerals ==
    { "0", "42", "-7", "+3", "007", " 12 ", "1_0", "\n5",
      "", "x", "1.5", "1e3", "--1", "1 2", "_1", "1__0", "0x10", "+", "- 1", "4_" }

QueryChildren ==
    { Str("k"), List(<<>>), Form("k", <<>>), Form("j", <<Str("5")>>),
      Form("k", <<Str("42")>>), Form("k", <<Str("-7"), Str("8")>>),
      Form("k", <<Str("x")>>), Form("k", <<List(<<Str("1")>>)>>),
      List(<<List(<<Str("k")>>), Str("1")>>) }

RECURSIVE ChildrenOfLen(_)
ChildrenOfLen(n) ==
    IF n = 0 THEN {<<>>}
    ELSE {Append(s, e) : s \in ChildrenOfLen(n - 1), e \in QueryChildren}

QueryTrees ==
    {Str("k"), Str("")}
    \cup {List(s) : s \in UNION {ChildrenOfLen(n) : n \in 0..MaxChildren}}
    \cup {Form("h", <<Form("k", <<Str(t)>>), Form("k", <<Str("9")>>)>>) : t \in Numerals}

-----------------------------------------------------------------------------
(* One call of a helper on a tree and a key.                               *)

InitQuery ==
    /\ doc \in [expr : QueryTrees, key : QueryKeys]
    /\ text = <<>>
    /\ mode \in {"sexpr_get_all", "sexpr_get", "sexpr_get_value", "sexpr_get_int"}
    /\ pc = "call"
    /\ tz = TokenizeStart(<<>>)
    /\ ps = Parser(<<>>)
    /\ result = None
    /\ out = None

\* the helper returns: no helper changes the tree it was given
ReturnOf(value) ==
    /\ pc = "call"
    /\ result' = value
    /\ pc' = "done"
    /\ UNCHANGED <<text, mode, tz, ps, doc, out>>

CallGetAll == mode = "sexpr_get_all" /\ ReturnOf(sexpr_get_all(doc.expr, doc.key))

CallGet == mode = "sexpr_get" /\ ReturnOf(sexpr_get(doc.expr, doc.key))

CallGetValue == mode = "sexpr_get_value" /\ ReturnOf(sexpr_get_value(doc.expr, doc.key))

CallGetInt == mode = "sexpr_get_int" /\ ReturnOf(sexpr_get_int(doc.expr, doc.key))

NextQuery == CallGetAll \/ CallGet \/ CallGetValue \/ CallGetInt

SpecQuery == InitQuery /\ [][NextQuery]_vars

-----------------------------------------------------------------------------
(* A file, and the same file with one more child list, whose head no       *)
(* decoder knows, in the root, in the symbol definition or in the unit.    *)

UnknownChildren ==
    { Form("future_item", <<Str("1"), Form("at", <<Str("9"), Str("9"), Str("90")>>)>>),
      Form("x", <<>>) }

InsertLibraries ==
    { Library(<<>>, <<Pin(<<Str("passive"), Str("line")>>, FullPinTail)>>),
      Library(<< Form("in_bom", <<Str("no")>>),
                 Form("property", <<Str("Reference"), Str("U"), Form("id", <<Str("0")>>),
                                    Form("at", <<Str("0"), Str("0"), Str("0")>>),
                                    SomeEffects>>) >>,
              << Form("rectangle", <<Form("start", <<Str("-1"), Str("1")>>),
                                     Form("end", <<Str("1"), Str("-1")>>)>>) >>) }

\* schematics of one element, with and without the uuid forms
InsertSchematics ==
    {Schematic(u, <<Form("junction", <<Form("at", <<Str("0"), Str("0")>>)>> \o u)>>) :
        u \in UuidForms}
    \cup {Schematic(u, <<Form("label", <<Str("L"),
                                         Form("at", <<Str("0"), Str("0"), Str("0")>>),
                                         SomeEffects>> \o u)>>) : u \in UuidForms}

\* the list of the file that takes the new child: the root, the symbol
\* definition (the fourth element of a library) or its unit (the last
\* element of the definition)
InsertTarget(base, where) ==
    CASE where = "root" -> base
      [] where = "symbol" -> base.val[4]
      [] where = "unit" -> base.val[4].val[Len(base.val[4].val)]

\* items with x put after the first i of them
InsertAfter(items, i, x) ==
    SubSeq(items, 1, i) \o <<x>> \o SubSeq(items, i + 1, Len(items))

\* the file with the child d.child after the first d.at elements of the list
Inserted(d) ==
    CASE d.where = "root" -> List(InsertAfter(d.base.val, d.at, d.child))
      [] d.where = "symbol" ->
            [d.base EXCEPT !.val[4].val = InsertAfter(@, d.at, d.child)]
      [] d.where = "unit" ->
            [d.base EXCEPT !.val[4].val[Len(d.base.val[4].val)].val =
                               InsertAfter(@, d.at, d.child)]

\* every place after the head of the list, the place before the name of a
\* symbol definition or unit included
InsertDocuments ==
    UNION {{[base |-> t[1], where |-> t[2], at |-> i, child |-> c] :
               i \in 1..Len(InsertTarget(t[1], t[2]).val), c \in UnknownChildren} :
           t \in (InsertLibraries \X {"root", "symbol", "unit"})
                  \cup (InsertSchematics \X {"root"})}

InitInsert ==
    /\ doc \in InsertDocuments
    /\ text = write_sexpr(Inserted(doc))
    /\ mode = IF doc.base \in InsertLibraries THEN "symbol_library" ELSE "schematic"
    /\ pc = "decode_base"
    /\ tz = TokenizeStart(text)
    /\ ps = Parser(<<>>)
    /\ result = None
    /\ out = None

\* the text the next call decodes: first the file without the new child,
\* then the file with it
NextFile == IF pc = "decode_base" THEN write_sexpr(doc.base) ELSE text

\* the decoder returns, or an exception leaves it
Decoded(outcome) ==
    /\ pc \in {"decode_base", "decode_inserted"}
    /\ out' = IF pc = "decode_base" THEN outcome ELSE out
    /\ result' = IF pc = "decode_base" THEN result ELSE outcome
    /\ pc' = IF pc = "decode_base" THEN "decode_inserted" ELSE "done"
    /\ UNCHANGED <<text, mode, tz, ps, doc>>

\* parse_symbol_library of the next file
DecodeLibraryFile ==
    /\ mode = "symbol_library"
    /\ Decoded(parse_symbol_library(NextFile))

\* parse_schematic of the next file, its uuids drawn from a random source
DecodeSchematicFile ==
    /\ mode = "schematic"
    /\ \E seed \in Seeds : Decoded(parse_schematic(NextFile, seed))

NextInsert == DecodeLibraryFile \/ DecodeSchematicFile

SpecInsert == InitInsert /\ [][NextInsert]_vars

-----------------------------------------------------------------------------
(* Looking symbol instances up in a decoded schematic.  A schematic of up  *)
(* to MaxSymbols symbol instances is decoded; the instances are told apart *)
(* by their uuid, which is their place in the file.  Then                  *)
(* symbol_by_reference or symbols_by_lib_id is called with some argument.  *)

MaxSymbols == 3

\* SymbolInstance.reference: the value of the first property named Reference
RECURSIVE ReferenceLoop(_)
ReferenceLoop(properties) ==
    IF properties = <<>> THEN Str("?")
    ELSE IF Head(properties).name = Str("Reference") THEN Head(properties).value
    ELSE ReferenceLoop(Tail(properties))

SymbolInstance_reference(sym) == ReferenceLoop(sym.properties)

RECURSIVE symbol_by_reference_last(_, _)
\* the last instance with the reference in place of the first
symbol_by_reference_last(symbols, reference) ==
    IF symbols = <<>> THEN None
    ELSE IF SymbolInstance_reference(symbols[Len(symbols)]) = reference
         THEN symbols[Len(symbols)]
    ELSE symbol_by_reference_last(SubSeq(symbols, 1, Len(symbols) - 1), reference)

RECURSIVE symbol_by_reference(_, _)
\* Schematic.symbol_by_reference, as the loop over self.symbols
symbol_by_reference(symbols, reference) ==
    IF symbols = <<>> THEN None
    ELSE IF SymbolInstance_reference(Head(symbols)) = reference THEN Head(symbols)
    ELSE symbol_by_reference(Tail(symbols), reference)

RECURSIVE symbols_by_lib_id(_, _)
\* Schematic.symbols_by_lib_id, as the comprehension over self.symbols
symbols_by_lib_id(symbols, lib_id) ==
    IF symbols = <<>> THEN <<>>
    ELSE (IF Head(symbols).lib_id = lib_id THEN <<Head(symbols)>> ELSE <<>>)
         \o symbols_by_lib_id(Tail(symbols), lib_id)

\* what a symbol instance of the file says: its lib_id and its properties
SymbolKinds ==
    { [lib_id |-> "Device:R", properties |-> << <<"Reference", "U1">> >>],
      [lib_id |-> "Device:C", properties |-> << <<"Reference", "U1">> >>],
      [lib_id |-> "Device:R", properties |-> << <<"Value", "U1">>, <<"Reference", "U2">> >>],
      [lib_id |-> "Device:R", properties |-> << <<"Value", "U1">> >>] }

PlaceNames == <<"u1", "u2", "u3", "u4", "u5">>

\* the i-th (symbol ...) form of the file
SymbolForm(kind, i) ==
    Form("symbol",
         << Form("lib_id", <<Str(kind.lib_id)>>),
            Form("at", <<Str("0"), Str("0"), Str("0")>>),
            Form("uuid", <<Str(PlaceNames[i])>>) >>
         \o [j \in 1..Len(kind.properties) |->
                Form("property", <<Str(kind.properties[j][1]),
                                   Str(kind.properties[j][2])>>)])

LookupSchematic(kinds) ==
    Schematic(<<>>, [i \in 1..Len(kinds) |-> SymbolForm(kinds[i], i)])

LookupDocuments ==
    UNION {[1..n -> SymbolKinds] : n \in 0..MaxSymbols}

LookupReferences == {Str("U1"), Str("U2"), Str("U9"), Str("?")}

LookupLibIds == {Str("Device:R"), Str("Device:C"), Str("Device:X")}

InitLookup ==
    /\ doc \in LookupDocuments
    /\ text = write_sexpr(LookupSchematic(doc))
    /\ mode = "lookup"
    /\ pc = "decode"
    /\ tz = TokenizeStart(text)
    /\ ps = Parser(<<>>)
    /\ result = None
    /\ out = None

\* parse_schematic(text)
DecodeSymbols ==
    /\ mode = "lookup"
    /\ pc = "decode"
    /\ \E seed \in Seeds : result' = parse_schematic(text, seed)
    /\ pc' = "decoded"
    /\ UNCHANGED <<text, mode, tz, ps, doc, out>>

\* a call with a result that is a Schematic
Lookup(call, argument, returned) ==
    /\ mode = "lookup"
    /\ pc = "decoded"
    /\ ~result.raised
    /\ result.v.ok
    /\ out' = [call |-> call, argument |-> argument, returned |-> returned]
    /\ pc' = "done"
    /\ UNCHANGED <<text, mode, tz, ps, doc, result>>

\* schematic.symbol_by_reference(reference)
LookupByReference ==
    \E reference \in LookupReferences :
        Lookup("symbol_by_reference", reference,
               symbol_by_reference(result.v.value.symbols, reference))

\* schematic.symbols_by_lib_id(lib_id)
LookupByLibId ==
    \E lib_id \in LookupLibIds :
        Lookup("symbols_by_lib_id", lib_id,
               symbols_by_lib_id(result.v.value.symbols, lib_id))

NextLookup == DecodeSymbols \/ LookupByReference \/ LookupByLibId

SpecLookup == InitLookup /\ [][NextLookup]_vars

-----------------------------------------------------------------------------
(* One text handed to parse_schematic twice.  Each call draws the uuids it *)
(* generates from a random source of its own.                              *)

\* a (uuid ...) sub-form with the empty value
EmptyUuid == <<Form("uuid", <<Str("")>>)>>

RepeatDocuments ==
    SchematicDocuments
    \cup {Schematic(u, <<Form("junction", <<Form("at", <<Str("0"), Str("0")>>)>> \o v)>>) :
              u, v \in UuidForms \cup {EmptyUuid}}

InitRepeat ==
    /\ doc \in RepeatDocuments
    /\ text = write_sexpr(doc)
    /\ mode = "repeat"
    /\ pc = "first"
    /\ tz = TokenizeStart(text)
    /\ ps = Parser(<<>>)
    /\ result = None
    /\ out = None

\* a call has returned: the first return is kept in out, the second in result
Repeated(outcome) ==
    /\ mode = "repeat"
    /\ pc \in {"first", "second"}
    /\ out' = IF pc = "first" THEN outcome ELSE out
    /\ result' = IF pc = "first" THEN result ELSE outcome
    /\ pc' = IF pc = "first" THEN "second" ELSE "done"
    /\ UNCHANGED <<text, mode, tz, ps, doc>>

\* parse_schematic(text), its uuids drawn from one of the random sources
DecodeRepeated == \E seed \in Seeds : Repeated(parse_schematic(text, seed))

NextRepeat == DecodeRepeated

SpecRepeat == InitRepeat /\ [][NextRepeat]_vars

-----------------------------------------------------------------------------
(* with_property and property_value of SymbolInstance and SymbolDef.  The  *)
(* receiver is a symbol instance or a symbol definition with up to         *)
(* MaxProperties properties, names repeated among them; a property is      *)
(* handed to with_property, and property_value is called on the result.    *)

MaxProperties == 3

\* the loop of with_property over self.properties
NewProps(properties, prop) ==
    LET new_props == [i \in 1..Len(properties) |->
                         IF properties[i].name = prop.name THEN prop
                         ELSE properties[i]]
        found == \E i \in 1..Len(properties) : properties[i].name = prop.name
    IN  IF found THEN new_props ELSE Append(new_props, prop)

\* mutant of SymbolInstance.with_property: the property is always appended
SymbolInstance_with_property_appended(self, prop) ==
    [self EXCEPT !.properties = Append(@, prop)]

\* SymbolInstance.with_property
SymbolInstance_with_property(self, prop) ==
    [lib_id |-> self.lib_id, position |-> self.position, unit |-> self.unit,
     mirror |-> self.mirror, properties |-> NewProps(self.properties, prop),
     pins |-> self.pins, uuid |-> self.uuid, in_bom |-> self.in_bom,
     on_board |-> self.on_board]

\* SymbolDef.with_property
SymbolDef_with_property(self, prop) ==
    [name |-> self.name, properties |-> NewProps(self.properties, prop),
     units |-> self.units, in_bom |-> self.in_bom, on_board |-> self.on_board,
     extends |-> self.extends, power |-> self.power,
     pin_numbers_hide |-> self.pin_numbers_hide,
     pin_names_hide |-> self.pin_names_hide,
     pin_names_offset |-> self.pin_names_offset]

RECURSIVE PropertyValueLoop(_, _)
PropertyValueLoop(properties, name) ==
    IF properties = <<>> THEN None
    ELSE IF Head(properties).name = name THEN Head(properties).value
    ELSE PropertyValueLoop(Tail(properties), name)

\* SymbolInstance.property_value and SymbolDef.property_value
property_value(self, name) == PropertyValueLoop(self.properties, name)

OldProperties ==
    {Property(Str(n), Str(v), 0, Position(0, 0, 0), EFFECTS_DEFAULT) :
        n \in {"Reference", "Value"}, v \in {"a", "b"}}

NewProperties ==
    {Property(Str(n), Str("new"), 7, Position(1000000, 0, 0), EFFECTS_DEFAULT) :
        n \in {"Reference", "Value", "Footprint"}}

PropertyLists == UNION {[1..n -> OldProperties] : n \in 0..MaxProperties}

\* a symbol instance and a symbol definition no field of which is its default
Instance(properties) ==
    [lib_id |-> Str("Device:R"), position |-> Position(1000000, 2000000, 90000000),
     unit |-> 2, mirror |-> Str("x"), properties |-> properties,
     pins |-> <<[number |-> Str("1"), uuid |-> [value |-> Str("p1")]]>>,
     uuid |-> [value |-> Str("u1")], in_bom |-> FALSE, on_board |-> TRUE]

Definition(properties) ==
    [name |-> Str("R"), properties |-> properties,
     units |-> <<SymbolUnit(Str("R_1_1"), 1, 1, <<>>, <<>>)>>,
     in_bom |-> FALSE, on_board |-> TRUE, extends |-> Str("Base"),
     power |-> TRUE, pin_numbers_hide |-> TRUE, pin_names_hide |-> FALSE,
     pin_names_offset |-> 1016000]

PropertyNames == {Str("Reference"), Str("Value"), Str("Footprint"), Str("Datasheet")}

InitProperty ==
    /\ mode \in {"SymbolInstance", "SymbolDef"}
    /\ \E properties \in PropertyLists, prop \in NewProperties :
           doc = [self |-> IF mode = "SymbolInstance" THEN Instance(properties)
                           ELSE Definition(properties),
                  prop |-> prop]
    /\ text = <<>>
    /\ pc = "with_property"
    /\ tz = TokenizeStart(<<>>)
    /\ ps = Parser(<<>>)
    /\ result = None
    /\ out = None

\* instance.with_property(prop)
InstanceWithProperty ==
    /\ mode = "SymbolInstance"
    /\ pc = "with_property"
    /\ result' = SymbolInstance_with_property(doc.self, doc.prop)
    /\ pc' = "property_value"
    /\ UNCHANGED <<text, mode, tz, ps, doc, out>>

\* definition.with_property(prop)
DefinitionWithProperty ==
    /\ mode = "SymbolDef"
    /\ pc = "with_property"
    /\ result' = SymbolDef_with_property(doc.self, doc.prop)
    /\ pc' = "property_value"
    /\ UNCHANGED <<text, mode, tz, ps, doc, out>>

\* property_value(name) of the value that with_property returned
PropertyValue ==
    /\ mode \in {"SymbolInstance", "SymbolDef"}
    /\ pc = "property_value"
    /\ \E name \in PropertyNames :
           out' = [name |-> name, returned |-> property_value(result, name)]
    /\ pc' = "done"
    /\ UNCHANGED <<text, mode, tz, ps, doc, result>>

NextProperty == InstanceWithProperty \/ DefinitionWithProperty \/ PropertyValue

SpecProperty == InitProperty /\ [][NextProperty]_vars

-----------------------------------------------------------------------------
(* The dangling rules of the electrical rules check, run on schematics of  *)
(* up to MaxWires wires between two points, with a junction and a label of *)
(* each kind at one of the points or absent.  A wire carries its object    *)
(* identity obj, which is what "is not" compares.                          *)

MaxWires == 2

ErcViolation(rule_id, severity, message, location, sheet_path) ==
    [rule_id |-> rule_id, severity |-> severity, message |-> message,
     location |-> location, sheet_path |-> sheet_path]

\* the tuple (p.x, p.y) of a point or position
Coordinates(p) == <<p.x, p.y>>

\* the connection_points set that WireDanglingRule.check collects
connection_points(schematic) ==
    {Coordinates(schematic.wires[i].start) : i \in 1..Len(schematic.wires)}
    \cup {Coordinates(schematic.wires[i].end) : i \in 1..Len(schematic.wires)}
    \cup {Coordinates(schematic.junctions[i].position) :
              i \in 1..Len(schematic.junctions)}
    \cup {Coordinates(schematic.labels[i].position) : i \in 1..Len(schematic.labels)}
    \cup {Coordinates(schematic.hierarchical_labels[i].position) :
              i \in 1..Len(schematic.hierarchical_labels)}
    \cup {Coordinates(schematic.global_labels[i].position) :
              i \in 1..Len(schematic.global_labels)}

\* how many items of the sequence are placed at pt
PlacedOn(items, pt) ==
    Cardinality({i \in 1..Len(items) : Coordinates(items[i].position) = pt})

\* the count of connections of the endpoint loop of WireDanglingRule.check
connections(schematic, wire, pt) ==
    LET others == {i \in 1..Len(schematic.wires) : schematic.wires[i].obj # wire.obj}
    IN  Cardinality({i \in others : Coordinates(schematic.wires[i].start) = pt})
        + Cardinality({i \in others : Coordinates(schematic.wires[i].end) = pt})
        + PlacedOn(schematic.labels, pt)
        + PlacedOn(schematic.hierarchical_labels, pt)
        + PlacedOn(schematic.junctions, pt)

RECURSIVE WireDanglingLoop(_, _, _, _)
\* the loop over schematic.wires, from the i-th wire on
WireDanglingLoop(schematic, sheet_path, i, violations) ==
    IF i > Len(schematic.wires) THEN violations
    ELSE LET wire == schematic.wires[i]
             found(endpoint) ==
                 IF connections(schematic, wire, Coordinates(endpoint)) = 0
                 THEN <<ErcViolation(Str("wire_dangling"), Str("warning"),
                                     Str("Wire endpoint has no connection"),
                                     Position(endpoint.x, endpoint.y, 0),
                                     sheet_path)>>
                 ELSE <<>>
         IN  WireDanglingLoop(schematic, sheet_path, i + 1,
                              violations \o found(wire.start) \o found(wire.end))

WireDanglingRule_check(schematic, sheet_path) ==
    WireDanglingLoop(schematic, sheet_path, 1, <<>>)

RECURSIVE LabelDanglingLoop(_, _, _, _)
\* one of the three loops of LabelDanglingRule.check
LabelDanglingLoop(schematic, sheet_path, labels, kind) ==
    IF labels = <<>> THEN <<>>
    ELSE LET label == Head(labels)
             wire_points ==
                 {Coordinates(schematic.wires[i].start) : i \in 1..Len(schematic.wires)}
                 \cup {Coordinates(schematic.wires[i].end) :
                           i \in 1..Len(schematic.wires)}
         IN  (IF Coordinates(label.position) \notin wire_points
              THEN <<ErcViolation(Str("label_dangling"), Str("error"),
                                  Atom(Chars(kind) \o <<"\"">> \o label.text.val
                                       \o Chars("\" is not connected to a wire")),
                                  label.position, sheet_path)>>
              ELSE <<>>)
             \o LabelDanglingLoop(schematic, sheet_path, Tail(labels), kind)

LabelDanglingRule_check(schematic, sheet_path) ==
    LabelDanglingLoop(schematic, sheet_path, schematic.labels, "Label ")
    \o LabelDanglingLoop(schematic, sheet_path, schematic.hierarchical_labels,
                         "Hierarchical label ")
    \o LabelDanglingLoop(schematic, sheet_path, schematic.global_labels,
                         "Global label ")

ErcPoints == {Point(0, 0), Point(2540000, 0)}

\* nothing, or one item at one of the points
Placed(item(_)) == {<<>>} \cup {<<item(Position(p.x, p.y, 0))>> : p \in ErcPoints}

ErcWires ==
    UNION {{[i \in 1..n |-> [obj |-> i, start |-> w[i][1], end |-> w[i][2]]] :
               w \in [1..n -> ErcPoints \X ErcPoints]} : n \in 0..MaxWires}

ErcSchematics ==
    {[wires |-> w, junctions |-> j, labels |-> l, hierarchical_labels |-> h,
      global_labels |-> g, symbols |-> <<>>] :
        w \in ErcWires,
        j \in Placed(LAMBDA p : [position |-> p]),
        l \in Placed(LAMBDA p : [text |-> Str("L"), position |-> p]),
        h \in Placed(LAMBDA p : [text |-> Str("H"), position |-> p]),
        g \in Placed(LAMBDA p : [text |-> Str("G"), position |-> p])}

InitDangling ==
    /\ doc \in ErcSchematics
    /\ mode \in {"wire_dangling", "label_dangling"}
    /\ text = <<>>
    /\ pc = "check"
    /\ tz = TokenizeStart(<<>>)
    /\ ps = Parser(<<>>)
    /\ result = None
    /\ out = None

\* WireDanglingRule().check(schematic)
CheckWireDangling ==
    /\ mode = "wire_dangling"
    /\ pc = "check"
    /\ result' = WireDanglingRule_check(doc, Str(""))
    /\ pc' = "done"
    /\ UNCHANGED <<text, mode, tz, ps, doc, out>>

\* LabelDanglingRule().check(schematic)
CheckLabelDangling ==
    /\ mode = "label_dangling"
    /\ pc = "check"
    /\ result' = LabelDanglingRule_check(doc, Str(""))
    /\ pc' = "done"
    /\ UNCHANGED <<text, mode, tz, ps, doc, out>>

NextDangling == CheckWireDangling \/ CheckLabelDangling

SpecDangling == InitDangling /\ [][NextDangling]_vars

-----------------------------------------------------------------------------
(* ErcRunner.  Python lists are objects of a heap: heap[1] is the list      *)
(* ErcRunner.DEFAULT_RULES and heap[2] a list of rules that a caller hands  *)
(* to ErcRunner(rules); a runner is the place of its _rules list in the     *)
(* heap.  A rule is named by its rule_id.  Up to MaxCalls calls of          *)
(* ErcRunner(), ErcRunner(rules) and add_rule are made, and then one        *)
(* runner's check, or run_erc, is called.                                   *)

MaxCalls == 3

\* EndpointOffGridRule._is_on_grid, the value and GRID_SIZE in millionths
_is_on_grid(value) ==
    LET GRID_SIZE == 1270000
        remainder == (IF value < 0 THEN -value ELSE value) % GRID_SIZE
    IN  remainder < 10000 \/ (GRID_SIZE - remainder) < 10000

RECURSIVE EndpointOffGridLoop(_, _, _)
EndpointOffGridLoop(wires, sheet_path, violations) ==
    IF wires = <<>> THEN violations
    ELSE LET found(endpoint) ==
                 IF ~_is_on_grid(endpoint.x) \/ ~_is_on_grid(endpoint.y)
                 THEN <<ErcViolation(Str("endpoint_off_grid"), Str("warning"),
                                     Str("Wire endpoint is off the 1.27mm grid"),
                                     Position(endpoint.x, endpoint.y, 0),
                                     sheet_path)>>
                 ELSE <<>>
         IN  EndpointOffGridLoop(Tail(wires), sheet_path,
                                 violations \o found(Head(wires).start)
                                            \o found(Head(wires).end))

EndpointOffGridRule_check(schematic, sheet_path) ==
    EndpointOffGridLoop(schematic.wires, sheet_path, <<>>)

RECURSIVE DuplicateReferenceLoop(_, _, _)
\* the loop over references.items(): the references are taken in the order
\* in which the dict got them, and each one's symbols after the first in
\* the order of schematic.symbols
DuplicateReferenceLoop(symbols, sheet_path, seen) ==
    IF symbols = <<>> THEN <<>>
    ELSE LET ref == SymbolInstance_reference(Head(symbols))
             later == SelectSeq(Tail(symbols),
                                LAMBDA sym : SymbolInstance_reference(sym) = ref)
             rest == DuplicateReferenceLoop(Tail(symbols), sheet_path, seen \cup {ref})
         IN  IF ref \in seen \/ (ref.val # <<>> /\ ref.val[1] = "#")
             THEN rest
             ELSE [i \in 1..Len(later) |->
                      ErcViolation(Str("duplicate_reference"), Str("error"),
                                   Atom(Chars("Duplicate reference designator \"")
                                        \o ref.val \o <<"\"">>),
                                   later[i].position, sheet_path)]
                  \o rest

DuplicateReferenceRule_check(schematic, sheet_path) ==
    DuplicateReferenceLoop(schematic.symbols, sheet_path, {})

\* rule.check(schematic, sheet_path) of the rule with the rule_id
RuleCheck(rule, schematic, sheet_path) ==
    CASE rule = "wire_dangling" -> WireDanglingRule_check(schematic, sheet_path)
      [] rule = "label_dangling" -> LabelDanglingRule_check(schematic, sheet_path)
      [] rule = "duplicate_reference" ->
             DuplicateReferenceRule_check(schematic, sheet_path)
      [] rule = "endpoint_off_grid" ->
             EndpointOffGridRule_check(schematic, sheet_path)

DEFAULT_RULES ==
    <<"wire_dangling", "label_dangling", "duplicate_reference", "endpoint_off_grid">>

\* the list a caller hands to ErcRunner(rules)
CallerRules == <<"endpoint_off_grid", "label_dangling">>

\* mutant of ErcRunner.__init__: the list handed in becomes the _rules list
ErcRunner_init_shared(heap, rules) == [heap |-> heap, self |-> rules]

\* ErcRunner.__init__: self._rules = list(...), a new list with the items of
\* the list at the place rules of the heap
ErcRunner_init(heap, rules) ==
    [heap |-> Append(heap, heap[rules]), self |-> Len(heap) + 1]

\* ErcRunner.add_rule: self._rules.append(rule)
ErcRunner_add_rule(heap, self, rule) == [heap EXCEPT ![self] = Append(@, rule)]

RECURSIVE ErcRunner_check_loop(_, _, _, _)
ErcRunner_check_loop(rules, schematic, sheet_path, all_violations) ==
    IF rules = <<>> THEN all_violations
    ELSE ErcRunner_check_loop(Tail(rules), schematic, sheet_path,
                              all_violations
                              \o RuleCheck(Head(rules), schematic, sheet_path))

\* ErcRunner.check
ErcRunner_check(heap, self, schematic, sheet_path) ==
    [violations |-> ErcRunner_check_loop(heap[self], schematic, sheet_path, <<>>),
     sheet_path |-> sheet_path]

\* run_erc: a new ErcRunner() and its check
run_erc(heap, schematic, sheet_path) ==
    LET runner == ErcRunner_init(heap, 1)
    IN  ErcRunner_check(runner.heap, runner.self, schematic, sheet_path)

RunnerSymbol(reference, x) ==
    [lib_id |-> Str("Device:R"), position |-> Position(x, 0, 0),
     properties |-> <<Property(Str("Reference"), Str(reference), 0,
                               Position(0, 0, 0), EFFECTS_DEFAULT)>>]

RunnerSchematics ==
    { [wires |-> <<[obj |-> 1, start |-> Point(0, 0), end |-> Point(1000000, 0)]>>,
       junctions |-> <<>>, labels |-> <<[text |-> Str("L"),
                                         position |-> Position(2540000, 0, 0)]>>,
       hierarchical_labels |-> <<>>, global_labels |-> <<>>,
       symbols |-> <<RunnerSymbol("U1", 0), RunnerSymbol("U2", 1270000),
                     RunnerSymbol("U1", 2540000)>>],
      [wires |-> <<[obj |-> 1, start |-> Point(0, 0), end |-> Point(2540000, 0)],
                   [obj |-> 2, start |-> Point(2540000, 0), end |-> Point(2540000, 0)]>>,
       junctions |-> <<>>, labels |-> <<>>, hierarchical_labels |-> <<>>,
       global_labels |-> <<>>, symbols |-> <<RunnerSymbol("#PWR", 0),
                                            RunnerSymbol("#PWR", 0)>>] }

\* out.heap is the heap; out.runners lists the runners made so far: self is
\* the place of the runner's _rules list, and given and added record the
\* calls, the rules the runner was made with and the rules added to it
InitRunner ==
    /\ doc \in RunnerSchematics
    /\ mode = "runner"
    /\ text = <<>>
    /\ pc = "calls"
    /\ tz = TokenizeStart(<<>>)
    /\ ps = Parser(<<>>)
    /\ result = None
    /\ out = [heap |-> <<DEFAULT_RULES, CallerRules>>, runners |-> <<>>, calls |-> 0]

\* ErcRunner() and ErcRunner(rules)
NewRunner ==
    /\ mode = "runner"
    /\ pc = "calls"
    /\ out.calls < MaxCalls
    /\ \E rules \in {1, 2} :
           LET runner == ErcRunner_init(out.heap, rules)
           IN  out' = [heap |-> runner.heap,
                       runners |-> Append(out.runners,
                                          [self |-> runner.self,
                                           given |-> out.heap[rules],
                                           added |-> <<>>]),
                       calls |-> out.calls + 1]
    /\ UNCHANGED <<text, mode, pc, tz, ps, result, doc>>

\* runner.add_rule(rule)
AddRule ==
    /\ mode = "runner"
    /\ pc = "calls"
    /\ out.calls < MaxCalls
    /\ \E r \in 1..Len(out.runners), rule \in {"wire_dangling", "duplicate_reference"} :
           out' = [heap |-> ErcRunner_add_rule(out.heap, out.runners[r].self, rule),
                   runners |-> [out.runners EXCEPT ![r].added = Append(@, rule)],
                   calls |-> out.calls + 1]
    /\ UNCHANGED <<text, mode, pc, tz, ps, result, doc>>

\* runner.check(schematic)
RunnerCheck ==
    /\ mode = "runner"
    /\ pc = "calls"
    /\ \E r \in 1..Len(out.runners) :
           result' = [runner |-> r,
                      returned |-> ErcRunner_check(out.heap, out.runners[r].self,
                                                   doc, Str(""))]
    /\ pc' = "done"
    /\ UNCHANGED <<text, mode, tz, ps, doc, out>>

\* run_erc(schematic)
RunErc ==
    /\ mode = "runner"
    /\ pc = "calls"
    /\ result' = [runner |-> 0, returned |-> run_erc(out.heap, doc, Str(""))]
    /\ pc' = "done"
    /\ UNCHANGED <<text, mode, tz, ps, doc, out>>

NextRunner == NewRunner \/ AddRule \/ RunnerCheck \/ RunErc

SpecRunner == InitRunner /\ [][NextRunner]_vars

-----------------------------------------------------------------------------
(* A reference reading of a text, character by character, against which    *)
(* the tokenizer is checked.  Every character gets a lexical class:        *)
(*   "ws" whitespace, "comment" a character of a line comment,             *)
(*   "lparen", "rparen", "open" / "close" the quotes of a string,          *)
(*   "esc" a backslash inside a string, "str" a character of a string,     *)
(*   "atom0" the first character of an atom, "atom" a later one.           *)
(* semiInAtom says what a ';' that directly follows atom characters is:    *)
(* TRUE, one more character of the atom; FALSE, the start of a comment.    *)

Whitespace == {" ", "\t", "\n", "\r"}

LexStep(s, c, semiInAtom) ==
    CASE s = "comment" ->
           IF c = "\n" THEN [class |-> "ws", next |-> "gap"]
           ELSE [class |-> "comment", next |-> "comment"]
      [] s = "string" ->
           IF c = "\"" THEN [class |-> "close", next |-> "gap"]
           ELSE IF c = "\\" THEN [class |-> "esc", next |-> "escape"]
           ELSE [class |-> "str", next |-> "string"]
      [] s = "escape" -> [class |-> "str", next |-> "string"]
      [] OTHER ->
           IF c \in Whitespace THEN [class |-> "ws", next |-> "gap"]
           ELSE IF c = "(" THEN [class |-> "lparen", next |-> "gap"]
           ELSE IF c = ")" THEN [class |-> "rparen", next |-> "gap"]
           ELSE IF c = "\"" THEN [class |-> "open", next |-> "string"]
           ELSE IF c = ";" /\ (s = "gap" \/ ~semiInAtom)
           THEN [class |-> "comment", next |-> "comment"]
           ELSE [class |-> IF s = "atom" THEN "atom" ELSE "atom0",
                 next |-> "atom"]

RECURSIVE LexScan(_, _, _, _, _)
LexScan(txt, i, s, acc, semiInAtom) ==
    IF i > Len(txt) THEN [classes |-> acc, final |-> s]
    ELSE LET r == LexStep(s, txt[i], semiInAtom)
         IN  LexScan(txt, i + 1, r.next, Append(acc, r.class), semiInAtom)

Lex(txt, semiInAtom) == LexScan(txt, 1, "gap", <<>>, semiInAtom)

\* the 1-based indices of txt, in order, whose class is in cs
RECURSIVE IndicesOf(_, _, _)
IndicesOf(classes, cs, i) ==
    IF i > Len(classes) THEN <<>>
    ELSE (IF classes[i] \in cs THEN <<i>> ELSE <<>>)
         \o IndicesOf(classes, cs, i + 1)

\* line and column (1-indexed) of the character at 1-based index i of txt
LineAt(txt, i) == 1 + Cardinality({j \in 1..(i - 1) : txt[j] = "\n"})

ColumnAt(txt, i) ==
    LET nls == {j \in 1..(i - 1) : txt[j] = "\n"}
        last == IF nls = {} THEN 0 ELSE CHOOSE j \in nls : \A k \in nls : k <= j
    IN  i - last

\* where the tokens of txt start
TokenStarts(txt) ==
    IndicesOf(Lex(txt, TRUE).classes, {"lparen", "rparen", "open", "atom0"}, 1)

\* the text without the characters of its comments
StripComments(txt, semiInAtom) ==
    LET cl == Lex(txt, semiInAtom).classes
        keep == IndicesOf(cl, {"ws", "lparen", "rparen", "open", "close", "esc",
                               "str", "atom0", "atom"}, 1)
    IN  [k \in 1..Len(keep) |-> txt[keep[k]]]

\* the ';' characters of txt that have one of the classes cs
SemicolonsIn(txt, cs, semiInAtom) ==
    LET cl == Lex(txt, semiInAtom).classes
    IN  Cardinality({i \in 1..Len(txt) : txt[i] = ";" /\ cl[i] \in cs})

\* the values of the tokens of one type, concatenated
RECURSIVE ConcatValues(_, _)
ConcatValues(tokens, type) ==
    IF tokens = <<>> THEN <<>>
    ELSE (IF Head(tokens).type = type THEN Head(tokens).value ELSE <<>>)
         \o ConcatValues(Tail(tokens), type)

Semicolons(chars) == Len(SelectSeq(chars, LAMBDA c : c = ";"))

-----------------------------------------------------------------------------
(* The token stream seen as parentheses.                                   *)

\* opening minus closing parens among the first k tokens
RECURSIVE Depth(_, _)
Depth(tokens, k) ==
    IF k = 0 THEN 0
    ELSE Depth(tokens, k - 1)
         + (CASE tokens[k].type = "LPAREN" -> 1
              [] tokens[k].type = "RPAREN" -> -1
              [] OTHER -> 0)

\* the tokens that close a paren no list has opened
Unopened(tokens) == {i \in 1..Len(tokens) : Depth(tokens, i) < 0}

Least(S) == CHOOSE i \in S : \A j \in S : i <= j
Greatest(S) == CHOOSE i \in S : \A j \in S : j <= i

\* the LPAREN tokens whose list is still open when the tokens end
StillOpen(tokens) ==
    {i \in 1..Len(tokens) :
        /\ tokens[i].type = "LPAREN"
        /\ \A j \in i..Len(tokens) : Depth(tokens, j) >= Depth(tokens, i)}

\* the index of the token that ends the first complete expression, 0 if none
FirstExprEnd(tokens) ==
    IF tokens = <<>> \/ tokens[1].type = "RPAREN" THEN 0
    ELSE IF tokens[1].type # "LPAREN" THEN 1
    ELSE LET closed == {k \in 1..Len(tokens) : Depth(tokens, k) = 0}
         IN  IF closed = {} THEN 0 ELSE Least(closed)

\* a tree written back as the sequence of its tokens: <<kind, characters>>
RECURSIVE Flatten(_), FlattenAll(_)
FlattenAll(items) ==
    IF items = <<>> THEN <<>>
    ELSE Flatten(Head(items)) \o FlattenAll(Tail(items))
Flatten(e) ==
    IF IsAtom(e) THEN << <<"atom", e.val>> >>
    ELSE << <<"(", <<>> >> >> \o FlattenAll(e.val) \o << <<")", <<>> >> >>

TokenTexts(tokens) ==
    [i \in 1..Len(tokens) |->
        IF tokens[i].type = "LPAREN" THEN <<"(", <<>> >>
        ELSE IF tokens[i].type = "RPAREN" THEN <<")", <<>> >>
        ELSE <<"atom", tokens[i].value>>]

\* tokenize() has returned Ok, and Tokens are the tokens it returned
Tokenized == tz.done /\ tz.res.ok
Tokens == tz.res.value

-----------------------------------------------------------------------------
(* Claims about the tokenizer and the parser, checked under Spec.          *)

\* C4, as stated: whenever parse returns Ok(t), t is a List node; no input
\* text makes the parser succeed with a bare atom as the root.
C4_Original ==
    (pc = "done" /\ mode = "parse" /\ result.ok) => IsList(result.value)

\* C4, amended: whenever parse returns Ok(t), t is a List node exactly when
\* the first token is an LPAREN; a token stream that is one single ATOM or
\* STRING token makes parse succeed with that atom as the root.
C4_RootFollowsFirstToken ==
    (pc = "done" /\ mode = "parse" /\ result.ok) =>
        /\ IsList(result.value) <=> Tokens[1].type = "LPAREN"
        /\ IsAtom(result.value) =>
              /\ Len(Tokens) = 1
              /\ Tokens[1].type \in {"ATOM", "STRING"}
              /\ result.value.val = Tokens[1].value

C4_Witness ==
    pc = "done" /\ mode = "parse" /\ result.ok /\ IsAtom(result.value)

\* C5: a text that ends inside a quoted string (also right after a
\* backslash) makes tokenize return Err(ParseError) with the message
\* "Unterminated string" and the line and column of the quote that opened
\* the string; no token list is returned, and parse_sexpr returns that error.
C5_UnterminatedString ==
    LET lex == Lex(text, TRUE)
        q == Greatest({i \in 1..Len(text) : lex.classes[i] = "open"})
        e == ParseError(MsgUnterminated, LineAt(text, q), ColumnAt(text, q))
    IN  (tz.done /\ lex.final \in {"string", "escape"}) =>
            /\ tz.res = Err(e)
            /\ pc = "done" /\ result = Err(e)

C5_Witness ==
    /\ tz.done /\ ~tz.res.ok
    /\ Lex(text, TRUE).final = "escape"
    /\ text[Len(text)] = "\\"
    /\ tz.res.error.column > 1

\* the parser stands at the end of the tokens inside a list
EndsInsideList == ps.stack # <<>> /\ ~HasToken(ps)

\* by the parentheses alone: a list is open at the end of the tokens and no
\* earlier token stops the call
ListOpenAtEnd(tokens, m) ==
    /\ StillOpen(tokens) # {}
    /\ Unopened(tokens) = {}
    /\ (m = "parse" => FirstExprEnd(tokens) = 0)

\* C6: when the token stream ends while a list is still open, parse and
\* parse_all fail with the message "Unexpected end of input in list" and the
\* line and column of the LPAREN token that opened the innermost list still
\* open at the end of input.
C6_EndOfInputInList ==
    (pc = "done" /\ Tokenized) =>
        /\ EndsInsideList <=> ListOpenAtEnd(Tokens, mode)
        /\ EndsInsideList =>
              LET open == Tokens[Greatest(StillOpen(Tokens))]
              IN  result = Err(ParseError(MsgEndInList, open.line, open.column))

C6_Witness ==
    /\ pc = "done" /\ Tokenized /\ EndsInsideList
    /\ Cardinality(StillOpen(Tokens)) >= 2
    /\ Tokens[Len(Tokens)].type = "RPAREN"

\* the index of the RPAREN token the parser reaches with no list open, 0 if
\* there is none: for parse_all the first unopened one; for parse the first
\* token, or the token right after the first complete expression
StrayParen(tokens, m) ==
    IF m = "parse_all"
    THEN IF Unopened(tokens) = {} THEN 0 ELSE Least(Unopened(tokens))
    ELSE IF tokens # <<>> /\ tokens[1].type = "RPAREN" THEN 1
    ELSE LET e == FirstExprEnd(tokens)
         IN  IF e > 0 /\ e < Len(tokens) /\ tokens[e + 1].type = "RPAREN"
             THEN e + 1 ELSE 0

\* C7, as stated: whenever parse or parse_all reaches an RPAREN token where
\* no list is open (at the very start, or after a complete top-level
\* expression), the call fails with "Unexpected closing paren" at that
\* token's line and column.
C7_Original ==
    LET i == StrayParen(Tokens, mode)
    IN  (pc = "done" /\ Tokenized /\ i > 0) =>
            result = Err(ParseError(MsgClosingParen,
                                    Tokens[i].line, Tokens[i].column))

\* C7, amended: parse_all fails with "Unexpected closing paren" at that
\* token's line and column, and so does parse when the RPAREN is the first
\* token; an RPAREN that follows the first complete expression makes parse
\* fail at that token's line and column with the message
\* "Unexpected token after expression: )".
C7_StrayClosingParen ==
    LET i == StrayParen(Tokens, mode)
    IN  (pc = "done" /\ Tokenized /\ i > 0) =>
            result = Err(ParseError(IF mode = "parse" /\ i > 1
                                    THEN MsgTrailing(<<")">>)
                                    ELSE MsgClosingParen,
                                    Tokens[i].line, Tokens[i].column))

C7_Witness ==
    /\ pc = "done" /\ Tokenized /\ mode = "parse"
    /\ StrayParen(Tokens, mode) > 1
    /\ ~result.ok

\* tokens remain after the first complete expression
TokensRemain(tokens) ==
    FirstExprEnd(tokens) > 0 /\ FirstExprEnd(tokens) < Len(tokens)

\* what parse_all does with tokens that parse rejects as trailing
ParseAllOnTrailing(tokens) ==
    LET r == parse_all(tokens)
    IN  IF r.ok
        THEN Len(r.value) >= 2 /\ FlattenAll(r.value) = TokenTexts(tokens)
        ELSE r.error.message \in {MsgClosingParen, MsgEndInList}

\* C8, as stated: parse fails whenever a token remains after the first
\* complete expression, with the message "Unexpected token after expression"
\* and the line and column of the first remaining token; parse_all on the
\* same tokens does not fail for that reason and returns every form in order.
C8_Original ==
    (pc = "done" /\ Tokenized /\ mode = "parse" /\ TokensRemain(Tokens)) =>
        LET token == Tokens[FirstExprEnd(Tokens) + 1]
        IN  /\ result = Err(ParseError(<<"Unexpected token after expression">>,
                                       token.line, token.column))
            /\ ParseAllOnTrailing(Tokens)

\* C8, amended: the message is "Unexpected token after expression: "
\* followed by the value of the first remaining token; the rest as stated.
C8_TrailingTokens ==
    /\ (pc = "done" /\ Tokenized /\ mode = "parse" /\ TokensRemain(Tokens)) =>
          LET token == Tokens[FirstExprEnd(Tokens) + 1]
          IN  /\ result = Err(ParseError(MsgTrailing(token.value),
                                         token.line, token.column))
              /\ ParseAllOnTrailing(Tokens)
    /\ (pc = "done" /\ Tokenized /\ mode = "parse_all" /\ result.ok) =>
          FlattenAll(result.value) = TokenTexts(Tokens)

C8_Witness ==
    /\ pc = "done" /\ Tokenized /\ mode = "parse" /\ TokensRemain(Tokens)
    /\ Len(Tokens) > FirstExprEnd(Tokens) + 1
    /\ parse_all(Tokens).ok

\* C9: every token carries the 1-indexed line and column of its first
\* character: a character advances the column by one, a newline sets the
\* column to 1 and increments the line.
C9_TokenPositions ==
    LET starts == TokenStarts(text)
    IN  /\ Len(tz.tokens) <= Len(starts)
        /\ \A i \in 1..Len(tz.tokens) :
              /\ tz.tokens[i].line = LineAt(text, starts[i])
              /\ tz.tokens[i].column = ColumnAt(text, starts[i])
        /\ Tokenized => Tokens = tz.tokens /\ Len(Tokens) = Len(starts)

\* the example of the claim: "(a\n  b)"
C9_Witness ==
    /\ Tokenized
    /\ text = <<"(", "a", "\n", " ", " ", "b", ")">>
    /\ Tokens = << Token("LPAREN", <<"(">>, 1, 1), Token("ATOM", <<"a">>, 1, 2),
                   Token("ATOM", <<"b">>, 2, 3), Token("RPAREN", <<")">>, 2, 4) >>

\* the tokens are those of the text without its comments, and every ';'
\* left is a character of an atom or of a string value
CommentsDropped(semiInAtom) ==
    /\ tokenize(StripComments(text, semiInAtom)) = tz.res
    /\ Semicolons(ConcatValues(Tokens, "ATOM"))
          = SemicolonsIn(text, {"atom0", "atom"}, semiInAtom)
    /\ Semicolons(ConcatValues(Tokens, "STRING"))
          = SemicolonsIn(text, {"str"}, semiInAtom)

\* C10, as stated: outside a quoted string a ';' begins a line comment, also
\* when it directly follows atom characters, as in "a;b": no character from
\* the ';' to the end of the line is part of any token; inside a quoted
\* string ';' is an ordinary character of the string value.
C10_Original == Tokenized => CommentsDropped(FALSE)

\* C10, amended: outside a quoted string a ';' at which a token could start
\* (one that does not directly follow atom characters) begins a line
\* comment; a ';' that directly follows atom characters, as in "a;b", is a
\* character of that atom; inside a quoted string ';' is an ordinary
\* character of the string value.
C10_Comments == Tokenized => CommentsDropped(TRUE)

C10_Witness ==
    /\ Tokenized
    /\ SemicolonsIn(text, {"comment"}, TRUE) > 0
    /\ SemicolonsIn(text, {"atom"}, TRUE) > 0
    /\ Len(Tokens) = 1

-----------------------------------------------------------------------------
(* Claims C1 to C3, about the decoders and the library encoder, checked    *)
(* under SpecFiles.                                                        *)

\* the library that was decoded first and the outcome of decoding what
\* write_symbol_library wrote of it
RoundTripDone ==
    mode = "symbol_library" /\ pc = "done" /\ out # None

\* the first pin of the first unit of the first symbol of a library
FirstPin(library) == library.symbols[1].units[1].pins[1]

\* C1: for every SymbolLibrary M obtained from a successful
\* parse_symbol_library call, parse_symbol_library(write_symbol_library(M))
\* returns Ok(M') with M' equal to M in every typed field.
C1_RoundTrip ==
    RoundTripDone => out.result = Returned(Ok(result.v.value))

\* C1, where it fails: the library with the pin (pin input (at 0 0 0) ...) is
\* decoded with an input pin, written as (pin input line ...) and decoded
\* from that with an unspecified pin.
C1_Diverges ==
    /\ RoundTripDone
    /\ doc = Library(<<>>, <<Pin(<<Str("input")>>, FullPinTail)>>)
    /\ FirstPin(result.v.value).electrical_type = Str("input")
    /\ ~out.result.raised /\ out.result.v.ok
    /\ FirstPin(out.result.v.value).electrical_type = Str("unspecified")

\* C2: decoding a pin form (pin T S ...) whose leading atoms are T from the
\* electrical-type vocabulary and S from the pin-shape vocabulary yields a
\* PinDef with electrical_type = T and shape = S.
C2_TypeAndShape ==
    \A T \in PinElectricalType, S \in PinShape :
        (/\ mode = "symbol_library"
         /\ pc # "decode"
         /\ doc = Library(<<>>, <<Pin(<<T, S>>, FullPinTail)>>))
        => /\ ~result.raised /\ result.v.ok
           /\ FirstPin(result.v.value).electrical_type = T
           /\ FirstPin(result.v.value).shape = S

\* C2, where it fails: (pin input inverted ...) is decoded as a pin of type
\* unspecified and shape line.
C2_Diverges ==
    /\ mode = "symbol_library"
    /\ pc # "decode"
    /\ doc = Library(<<>>, <<Pin(<<Str("input"), Str("inverted")>>, FullPinTail)>>)
    /\ ~result.raised /\ result.v.ok
    /\ FirstPin(result.v.value).electrical_type = Str("unspecified")
    /\ FirstPin(result.v.value).shape = Str("line")

\* C3: for every input text, parse_schematic and parse_symbol_library finish
\* by returning Ok(model) or Err(error); no exception escapes the call.
C3_NoException ==
    pc # "decode" => ~result.raised

\* C3, where it fails: an IndexError leaves parse_schematic on a wire whose
\* (pts ...) form holds an empty list, a ValueError leaves it on a title
\* block comment with a non-numeric index.
C3_Diverges ==
    /\ mode = "schematic"
    /\ pc = "done"
    /\ \/ /\ doc = Schematic(<<>>, <<Form("wire", <<Form("pts",
                      << List(<<>>), Form("xy", <<Str("0"), Str("0")>>),
                         Form("xy", <<Str("2.54"), Str("0")>>) >>)>>)>>)
          /\ result = Raise("IndexError")
       \/ /\ doc = Schematic(<<>>, <<Form("title_block",
                      <<Form("title", <<Str("T")>>),
                        Form("comment", <<Str("x"), Str("c")>>)>>)>>)
          /\ result = Raise("ValueError")

-----------------------------------------------------------------------------
(* Claims C11 to C13, about the tree writer, checked under SpecWrite.      *)

\* C11: an atom that is written quoted is read back as the atom it was; so
\* is, in particular, every atom that holds a quote, a newline and a
\* backslash, in any order and mixed with other characters.
C11_EscapeRoundTrip ==
    (pc = "done" /\ IsAtom(doc) /\ Head(text) = "\"") => result = Ok(doc)

\* C11: the atom a"<newline>\ is written as "a\"\n\\" and read back
C11_Witness ==
    /\ pc = "done"
    /\ doc = Atom(<<"a", "\"", "\n", "\\">>)
    /\ text = Chars("\"a\\\"\\n\\\\\"\n")
    /\ result = Ok(doc)

\* C12 as amended: write_sexpr of the empty list returns the text "()"
\* followed by the newline that ends every written text.
C12_EmptyList ==
    (pc # "write" /\ doc = List(<<>>)) => text = <<"(", ")", "\n">>

\* C12: the empty list has been written and read back
C12_Witness ==
    /\ pc = "done"
    /\ doc = List(<<>>)
    /\ text = Chars("()\n")
    /\ result = Ok(List(<<>>))

\* C12 as stated: write_sexpr of the empty list returns exactly "()".
C12_Original ==
    (pc # "write" /\ doc = List(<<>>)) => text = <<"(", ")">>

\* the inline rendering of a tree: the items of a list on one line, one
\* blank between them
RECURSIVE OneLine(_)
OneLine(expr) ==
    IF IsAtom(expr) THEN _format_atom(expr)
    ELSE IF Len(expr.val) = 0 THEN <<"(", ")">>
    ELSE <<"(">> \o OneLine(expr.val[1])
         \o Join([i \in 1..(Len(expr.val) - 1) |->
                    <<" ">> \o OneLine(expr.val[i + 1])], <<>>)
         \o <<")">>

\* the conditions (a), (b) and (c) of C13 on a non-empty list
InlineByRule(expr) ==
    LET atoms == \A i \in 1..Len(expr.val) : IsAtom(expr.val[i])
    IN  \/ IsAtom(expr.val[1]) /\ expr.val[1] \in _compact_keys
        \/ Len(expr.val) = 2 /\ atoms
        \/ Len(OneLine(expr)) <= 80 /\ (atoms \/ Len(expr.val) <= 3)

Blanks(n) == [i \in 1..n |-> " "]

\* the rendering C13 describes of a tree at a depth
RECURSIVE Layout(_, _)
Layout(expr, depth) ==
    IF IsAtom(expr) \/ Len(expr.val) = 0 \/ InlineByRule(expr)
    THEN OneLine(expr)
    ELSE <<"(">> \o Layout(expr.val[1], depth)
         \o Join([i \in 1..(Len(expr.val) - 1) |->
                    <<"\n">> \o Blanks(2 * (depth + 1))
                    \o Layout(expr.val[i + 1], depth + 1)], <<>>)
         \o <<"\n">> \o Blanks(2 * depth) \o <<")">>

\* C13: a non-empty list is written inline exactly when (a), (b) or (c)
\* holds of it, and otherwise with every item after the head on a line of
\* its own at depth + 1 and the closing paren on a line of its own at depth.
C13_InlineOrMultiline ==
    (pc # "write" /\ IsList(doc) /\ doc.val # <<>>)
        => text = Layout(doc, 0) \o <<"\n">>

\* C13: a list of a head and three items, one of them a list, is written on
\* five lines, the list among the items inline
C13_Witness ==
    /\ pc = "done"
    /\ doc = Form("k", <<List(<<Str("b")>>), Wide(38), Wide(38)>>)
    /\ text = Chars("(k\n  (b)\n  ") \o Wide(38).val \o Chars("\n  ")
              \o Wide(38).val \o Chars("\n)\n")

-----------------------------------------------------------------------------
(* The text write_symbol_library writes of a constructed library.          *)

RECURSIVE SubForms(_)
\* the lists of a tree, at any depth
SubForms(t) ==
    IF IsAtom(t) THEN {}
    ELSE {t} \cup UNION {SubForms(t.val[i]) : i \in 1..Len(t.val)}

\* the lists of a tree that start with the atom key
FormsHeaded(t, key) == {f \in SubForms(t) : f.val # <<>> /\ f.val[1] = Str(key)}

\* the children of the list f that start with the atom key
ChildrenHeaded(f, key) ==
    {f.val[i] : i \in {j \in 2..Len(f.val) :
                          /\ IsList(f.val[j])
                          /\ f.val[j].val # <<>>
                          /\ f.val[j].val[1] = Str(key)}}

\* sub occurs in s
Contains(s, sub) ==
    \E i \in 0..(Len(s) - Len(sub)) : SubSeq(s, i + 1, i + Len(sub)) = sub

\* the decimal numerals of the coordinates and angles of Positions
Numeral(v) ==
    CASE v = 0 -> "0"
      [] v = 1000000 -> "1"
      [] v = 2000000 -> "2"
      [] v = 2540000 -> "2.54"
      [] v = -1270000 -> "-1.27"
      [] v = 90000000 -> "90"
      [] v = 180500000 -> "180.5"
      [] v = -90000000 -> "-90"

\* the library holds one element, at position p
PlacedAt(p) ==
    \/ \E e \in {None, BoldLeftHidden} : doc = PinModel(p, e)
    \/ \E e \in {None, EFFECTS_DEFAULT, BoldLeftHidden} : doc = TextModel(p, e)
    \/ doc = PropertyModel(p, EFFECTS_DEFAULT)

\* C14: a Position whose angle is 0 is written as the three-element list
\* (at x y), any other as (at x y angle), inline, a whole number without
\* decimal point and trailing zeros: Position(1.0, 2.0, 0.0) as "(at 1 2)"
\* and Position(1.0, 2.0, 90.0) as "(at 1 2 90)".
C14_PositionForm ==
    pc = "done" =>
        \A p \in Positions :
            PlacedAt(p) =>
                LET xy == <<Str(Numeral(p.x)), Str(Numeral(p.y))>>
                    at == Form("at", IF p.angle = 0 THEN xy
                                     ELSE Append(xy, Str(Numeral(p.angle))))
                    inline == Chars("(at " \o Numeral(p.x) \o " " \o Numeral(p.y)
                                    \o (IF p.angle = 0 THEN ""
                                        ELSE " " \o Numeral(p.angle)) \o ")")
                IN  /\ result.ok
                    /\ FormsHeaded(result.value, "at") = {at}
                    /\ Contains(text, inline)

C14_Witness ==
    /\ pc = "done"
    /\ doc = TextModel(Position(1000000, 2000000, 0), EFFECTS_DEFAULT)
    /\ Contains(text, Chars("(text hello (at 1 2) (effects (font (size 1.27 1.27))))"))
    /\ FormsHeaded(result.value, "at") = {Form("at", <<Str("1"), Str("2")>>)}

\* C15: every rectangle, circle, arc and polyline that is written has a
\* stroke and a fill sub-form, and every text, property, pin name and pin
\* number that is written has an effects sub-form that holds a font sub-form,
\* however the model value was constructed.
C15_FullSubForms ==
    pc = "done" =>
        /\ result.ok
        /\ \A f \in SubForms(result.value) :
              f.val # <<>> =>
                /\ f.val[1] \in {Str("rectangle"), Str("circle"), Str("arc"), Str("polyline")}
                       => /\ ChildrenHeaded(f, "stroke") # {}
                          /\ ChildrenHeaded(f, "fill") # {}
                /\ f.val[1] \in {Str("text"), Str("property"), Str("name"), Str("number")}
                       => \E e \in ChildrenHeaded(f, "effects") :
                              ChildrenHeaded(e, "font") # {}

\* Text("hello") is written without an effects sub-form
C15_Diverges ==
    /\ pc = "done"
    /\ doc = TextModel(Position(0, 0, 0), None)
    /\ Contains(text, Chars("(symbol R_1_1 (text hello (at 0 0)))"))
    /\ FormsHeaded(result.value, "text")
           = {Form("text", <<Str("hello"), Form("at", <<Str("0"), Str("0")>>)>>)}

-----------------------------------------------------------------------------
(* The helpers that look into a tree.                                      *)

\* the positions, among the children of the tree, of the non-empty lists
\* whose first element is key
Matching(expr, key) ==
    IF IsAtom(expr) THEN {}
    ELSE {i \in 1..Len(expr.val) :
             /\ IsList(expr.val[i])
             /\ expr.val[i].val # <<>>
             /\ IsAtom(expr.val[i].val[1])
             /\ expr.val[i].val[1].val = key.val}

\* the first of a non-empty set of positions
First(positions) == CHOOSE i \in positions : \A j \in positions : i <= j

\* C16: sexpr_get_all returns exactly the direct child lists that are not
\* empty and start with key, in document order; sexpr_get returns the first
\* of them, or None when there is none; of an atom both return the empty
\* result.
C16_GetAndGetAll ==
    LET at == Matching(doc.expr, doc.key)
    IN  /\ (pc = "done" /\ mode = "sexpr_get_all") =>
               /\ Len(result) = Cardinality(at)
               /\ \A i \in at :
                      result[Cardinality({j \in at : j <= i})] = doc.expr.val[i]
        /\ (pc = "done" /\ mode = "sexpr_get") =>
               IF at = {} THEN result = None
               ELSE result = doc.expr.val[First(at)]

C16_Witness ==
    /\ pc = "done"
    /\ mode = "sexpr_get_all"
    /\ doc.key = Str("k")
    /\ doc.expr = List(<<Form("k", <<Str("x")>>), List(<<>>), Form("k", <<Str("42")>>)>>)
    /\ result = <<Form("k", <<Str("x")>>), Form("k", <<Str("42")>>)>>

\* the texts of the trees that Python reads as an integer, each with the
\* integer it denotes
Denotes ==
    { <<"0", 0>>, <<"42", 42>>, <<"-7", -7>>, <<"+3", 3>>, <<"007", 7>>,
      <<" 12 ", 12>>, <<"1_0", 10>>, <<"\n5", 5>>, <<"5", 5>>, <<"9", 9>> }

\* C17: sexpr_get_int returns the integer denoted by the second element of
\* the first child headed by key when that element is an atom that holds an
\* integer, and None in every other case; it never raises and never looks at
\* a later child headed by key.
C17_GetInt ==
    (pc = "done" /\ mode = "sexpr_get_int") =>
        LET at == Matching(doc.expr, doc.key)
            child == doc.expr.val[First(at)]
            denoted == IF at # {} /\ Len(child.val) >= 2 /\ IsAtom(child.val[2])
                       THEN {d \in Denotes : Chars(d[1]) = child.val[2].val}
                       ELSE {}
        IN  IF denoted = {} THEN result = None
            ELSE \A d \in denoted : result = PyInt(d[2])

C17_Witness ==
    /\ pc = "done"
    /\ mode = "sexpr_get_int"
    /\ doc.key = Str("k")
    /\ doc.expr = Form("h", <<Form("k", <<Str("1.5")>>), Form("k", <<Str("9")>>)>>)
    /\ result = None

-----------------------------------------------------------------------------
(* The root of a file.                                                     *)

\* the libraries and schematics every child of which is well-formed
WellFormedRoots ==
    {Library(<<>>, <<Pin(l, FullPinTail)>>) : l \in PinLeadings}
    \cup {Library(f, <<Pin(<<Str("unspecified"), Str("line")>>, FullPinTail)>>) :
             f \in SymbolFlags}
    \cup UnitDocuments
    \cup {Form("kicad_symbol_lib", <<>>), Form("kicad_sch", <<>>)}
    \cup {Schematic(u, <<>>) : u \in UuidForms}
    \cup {Schematic(u, <<Form(head, <<Form("pts", p)>> \o v)>>) :
             u \in UuidForms, v \in UuidForms, head \in {"wire", "bus"},
             p \in {<<Form("xy", <<Str("0"), Str("0")>>),
                      Form("xy", <<Str("2.54"), Str("0")>>)>>}}
    \cup {Schematic(u, <<Form(head, <<Form("at", <<Str("0"), Str("0")>>)>> \o v)>>) :
             u \in UuidForms, v \in UuidForms, head \in {"junction", "no_connect"}}
    \cup {Schematic(u, <<Form("label", <<Str("L"),
                                         Form("at", <<Str("0"), Str("0"), Str("0")>>),
                                         SomeEffects>> \o v)>>) :
             u \in UuidForms, v \in UuidForms}
    \cup {Schematic(u, <<Form("title_block", <<Form("title", <<Str("T")>>),
                                               Form("comment", <<Str("1"), Str("c")>>)>>)>>) :
             u \in UuidForms}

\* what the message of the error says of the head that was found
Got(head) ==
    IF IsAtom(head) THEN head.val
    ELSE IF head = List(<<Str("a")>>) THEN Chars("['a']")
    ELSE <<>>

\* C18: parse_symbol_library (parse_schematic) returns Err when the root is
\* an atom or an empty list; when the first element of the root is not
\* "kicad_symbol_lib" ("kicad_sch") it returns Err with a message that names
\* the head it found; it returns Ok when the head is the expected tag and
\* the other children are well-formed or absent.
C18_RootValidation ==
    LET root == parse_sexpr(text)
        library == (mode = "symbol_library")
        tag == IF library THEN "kicad_symbol_lib" ELSE "kicad_sch"
        Error(message) == IF library THEN SymbolParseError(message)
                          ELSE SchematicParseError(message)
    IN  (mode \in {"symbol_library", "schematic"} /\ pc # "decode" /\ root.ok) =>
            /\ (IsAtom(root.value) \/ root.value.val = <<>>) =>
                   result = Returned(Err(Error(
                       <<IF library THEN "Empty or invalid symbol library"
                         ELSE "Empty or invalid schematic">>)))
            /\ (IsList(root.value) /\ root.value.val # <<>>
                  /\ root.value.val[1] # Str(tag)) =>
                   result = Returned(Err(Error(
                       <<"Expected " \o tag \o ", got ">> \o Got(root.value.val[1]))))
            /\ (IsList(root.value) /\ root.value.val # <<>>
                  /\ root.value.val[1] = Str(tag) /\ root.value \in WellFormedRoots) =>
                   ~result.raised /\ result.v.ok

C18_Witness ==
    /\ mode = "schematic"
    /\ pc = "done"
    /\ doc = List(<<List(<<Str("a")>>), Str("b")>>)
    /\ text = Chars("((a) b)\n")
    /\ result = Returned(Err(SchematicParseError(
                    <<"Expected kicad_sch, got ">> \o Chars("['a']"))))

\* a library was decoded that holds the one unit of the given name
UnitDecoded(name) ==
    /\ mode = "symbol_library"
    /\ pc # "decode"
    /\ doc = UnitLibrary(name)
    /\ ~result.raised
    /\ result.v.ok

\* the decoded unit of such a library
TheUnit == result.v.value.symbols[1].units[1]

\* C20: unit_index and style_index of a decoded unit are the integers of the
\* last two segments of its name; when the name does not end in two integer
\* segments both are 1; decoding does not fail.
C20_UnitIndices ==
    LET Indices ==
            { <<"R_1_1", 1, 1>>, <<"R_2_3", 2, 3>>, <<"A_B_3_4", 3, 4>>,
              <<"_1_2", 1, 2>>, <<"R_-1_+2", -1, 2>>,
              <<"R_2_x", 1, 1>>, <<"R_x_2", 1, 1>>, <<"R_x_y", 1, 1>>, <<"R", 1, 1>>,
              <<"R_1", 1, 1>>, <<"R__1", 1, 1>>, <<"R_1_", 1, 1>> }
    IN  \A n \in Indices :
            (mode = "symbol_library" /\ pc # "decode" /\ doc = UnitLibrary(n[1])) =>
                /\ UnitDecoded(n[1])
                /\ TheUnit.name = Str(n[1])
                /\ TheUnit.unit_index = n[2]
                /\ TheUnit.style_index = n[3]

\* the unit R_2_x is decoded with unit_index 2 and style_index 1
C20_Diverges ==
    /\ UnitDecoded("R_2_x")
    /\ TheUnit.unit_index = 2
    /\ TheUnit.style_index = 1

-----------------------------------------------------------------------------
(* A child list with an unknown head.                                      *)

\* C19: a child list whose head no decoder knows, put at any place among the
\* children of the root, of a symbol definition or of a symbol unit, never
\* makes decoding fail, and the decoded model equals the model decoded from
\* the file without that child.
C19_UnknownChildSkipped ==
    pc = "done" =>
        /\ ~result.raised
        /\ result.v.ok
        /\ result = out

\* the child put before the name of the symbol definition: the symbol R is
\* decoded with the name ""
C19_Diverges ==
    /\ pc = "done"
    /\ doc.where = "symbol"
    /\ doc.at = 1
    /\ doc.child = Form("x", <<>>)
    /\ Contains(text, Chars("(x)\n    R\n"))
    /\ ~out.raised /\ out.v.ok /\ out.v.value.symbols[1].name = Str("R")
    /\ ~result.raised /\ result.v.ok /\ result.v.value.symbols[1].name = Str("")

-----------------------------------------------------------------------------
(* Words that no enumeration holds.                                        *)

\* the file was decoded by the decoder of its kind and Ok was returned
DecodedOk(kind) == mode = kind /\ pc # "decode" /\ ~result.raised /\ result.v.ok

\* C21: a pin whose type atom is no member of PinElectricalType is decoded,
\* without error, with electrical_type unspecified; a global label, a
\* hierarchical label or a sheet pin whose shape atom is no member of the
\* shapes is decoded with shape passive.
C21_EnumFallback ==
    \A w \in UnknownWords :
        /\ \A s \in {<<>>, <<Str("line")>>, <<Str("inverted")>>} :
              (mode = "symbol_library" /\ pc # "decode" /\ doc = PinOfType(w, s)) =>
                  /\ DecodedOk("symbol_library")
                  /\ result.v.value.symbols[1].units[1].pins[1].electrical_type
                         = Str("unspecified")
        /\ (mode = "schematic" /\ pc # "decode" /\ doc = LabelOfShape("global_label", w)) =>
              /\ DecodedOk("schematic")
              /\ result.v.value.global_labels[1].shape = Str("passive")
        /\ (mode = "schematic" /\ pc # "decode"
              /\ doc = LabelOfShape("hierarchical_label", w)) =>
              /\ DecodedOk("schematic")
              /\ result.v.value.hierarchical_labels[1].shape = Str("passive")
        /\ (mode = "schematic" /\ pc # "decode" /\ doc = SheetPinOfShape(w)) =>
              /\ DecodedOk("schematic")
              /\ result.v.value.sheets[1].pins[1].shape = Str("passive")

C21_Witness ==
    /\ DecodedOk("symbol_library")
    /\ doc = PinOfType("totally_unknown", <<Str("line")>>)
    /\ Contains(text, Chars("totally_unknown"))
    /\ result.v.value.symbols[1].units[1].pins[1].electrical_type = Str("unspecified")

-----------------------------------------------------------------------------
\* the places of the file's symbol instances that the predicate holds of
PlacesWhere(P(_)) == {i \in 1..Len(doc) : P(doc[i])}

\* the Reference of a symbol instance as the file states it
StatedReference(kind) ==
    LET named == {j \in 1..Len(kind.properties) : kind.properties[j][1] = "Reference"}
    IN  IF named = {} THEN Str("?")
        ELSE Str(kind.properties[CHOOSE j \in named : \A k \in named : j <= k][2])

\* C22: decoding a schematic that holds several symbol instances with the
\* same Reference succeeds and keeps every instance in symbols in document
\* order; symbols_by_lib_id returns all the instances with that lib_id in
\* document order, duplicates of a Reference included, and
\* symbol_by_reference returns the first instance with that Reference in
\* document order (None when there is none).
C22_DuplicateReferences ==
    (mode = "lookup" /\ pc # "decode") =>
        /\ ~result.raised
        /\ result.v.ok
        /\ LET symbols == result.v.value.symbols
           IN  /\ Len(symbols) = Len(doc)
               /\ \A i \in 1..Len(doc) :
                      /\ symbols[i].uuid = [value |-> Str(PlaceNames[i])]
                      /\ symbols[i].lib_id = Str(doc[i].lib_id)
                      /\ SymbolInstance_reference(symbols[i]) = StatedReference(doc[i])
               /\ (pc = "done" /\ out.call = "symbols_by_lib_id") =>
                      LET places == PlacesWhere(LAMBDA k : Str(k.lib_id) = out.argument)
                      IN  /\ Len(out.returned) = Cardinality(places)
                          /\ \A i \in places : \E n \in 1..Len(out.returned) :
                                 /\ out.returned[n] = symbols[i]
                                 /\ n = Cardinality({j \in places : j <= i})
               /\ (pc = "done" /\ out.call = "symbol_by_reference") =>
                      LET places == PlacesWhere(LAMBDA k : StatedReference(k) = out.argument)
                      IN  IF places = {} THEN out.returned = None
                          ELSE out.returned
                                   = symbols[CHOOSE i \in places : \A j \in places : i <= j]

\* three instances with the Reference U1, two of them of Device:R: the
\* lookup by Reference has returned the first, not the others
C22_Witness ==
    /\ mode = "lookup"
    /\ pc = "done"
    /\ Len(doc) = 3
    /\ \A i \in 1..3 : StatedReference(doc[i]) = Str("U1")
    /\ doc[1].lib_id = "Device:C"
    /\ doc[2].lib_id = "Device:R"
    /\ doc[3].lib_id = "Device:R"
    /\ Len(result.v.value.symbols) = 3
    /\ out.call = "symbol_by_reference"
    /\ out.argument = Str("U1")
    /\ out.returned = result.v.value.symbols[1]
    /\ symbols_by_lib_id(result.v.value.symbols, Str("Device:R"))
           = SubSeq(result.v.value.symbols, 2, 3)

-----------------------------------------------------------------------------
\* C23: for every tree t, parse_sexpr(write_sexpr(t)) returns Ok(t): the
\* writer quotes every atom that the tokenizer would not read back as the
\* same single atom, atoms that start with ';' included.
C23_WriteParseRoundTrip ==
    (mode = "parse" /\ pc = "done" /\ doc # None) => result = Ok(doc)

\* the atom ;a is written without quotes and read back as a comment
C23_Diverges ==
    /\ mode = "parse"
    /\ pc = "done"
    /\ doc = Atom(<<";", "a">>)
    /\ text = <<";", "a", "\n">>
    /\ ~result.ok

-----------------------------------------------------------------------------
\* C24: encoding a SymbolDef and decoding the result preserves
\* pin_names_hide and pin_names_offset independently of each other: for
\* every combination of pin_names_hide and pin_names_offset (the default
\* 0.508 or another value) the decoded SymbolDef has the same pin_names_hide
\* and the same pin_names_offset.
C24_PinNamesRoundTrip ==
    RoundTripDone =>
        /\ ~out.result.raised
        /\ out.result.v.ok
        /\ Len(out.result.v.value.symbols) = Len(result.v.value.symbols)
        /\ \A i \in 1..Len(result.v.value.symbols) :
               LET sym == result.v.value.symbols[i]
                   again == out.result.v.value.symbols[i]
               IN  /\ again.pin_names_hide = sym.pin_names_hide
                   /\ again.pin_names_offset = sym.pin_names_offset

\* the symbol with hidden pin names at the offset 1.016 is written with two
\* pin_names forms and decoded from them with pin names that are not hidden
C24_Diverges ==
    /\ RoundTripDone
    /\ doc = Library(<<Form("pin_names", <<Form("offset", <<Str("1.016")>>), Str("hide")>>)>>,
                     <<Pin(<<Str("unspecified"), Str("line")>>, FullPinTail)>>)
    /\ result.v.value.symbols[1].pin_names_hide
    /\ result.v.value.symbols[1].pin_names_offset = 1016000
    /\ ~out.result.raised /\ out.result.v.ok
    /\ ~out.result.v.value.symbols[1].pin_names_hide
    /\ out.result.v.value.symbols[1].pin_names_offset = 1016000

-----------------------------------------------------------------------------
\* C25: parse_schematic is deterministic: two calls on the same text return
\* equal Schematic values, the uuid of the root and of every element
\* included, also when the root or an element has no (uuid ...) sub-form or
\* an empty uuid value.
C25_Deterministic ==
    (mode = "repeat" /\ pc = "done") => result = out

\* a junction with the empty uuid value in a root with a uuid: both calls
\* return a schematic with the root's uuid, and the junctions differ in
\* their uuid
C25_Diverges ==
    /\ mode = "repeat"
    /\ pc = "done"
    /\ doc = Schematic(<<Form("uuid", <<Str("5b2b4e6c-0001")>>)>>,
                       <<Form("junction", <<Form("at", <<Str("0"), Str("0")>>)>>
                                          \o EmptyUuid)>>)
    /\ ~out.raised /\ out.v.ok
    /\ ~result.raised /\ result.v.ok
    /\ out.v.value.uuid = result.v.value.uuid
    /\ out.v.value.junctions[1].uuid # result.v.value.junctions[1].uuid

-----------------------------------------------------------------------------
\* the place of the quote that opens the string the text ends in
LastOpen(txt) ==
    LET opens == IndicesOf(Lex(txt, TRUE).classes, {"open"}, 1)
    IN  opens[Len(opens)]

\* the text ends inside a string
Unterminated(txt) == Lex(txt, TRUE).final \in {"string", "escape"}

\* C26: parse_sexpr tokenizes the whole text before it parses any token.
\* While the text is tokenized the parser holds no token, and when the
\* parser runs the tokenizer has read the whole text.  If the text holds an
\* unterminated string, the error returned is "Unterminated string" at the
\* opening quote, also when a stray closing paren or trailing tokens come
\* earlier in the text; any other error is returned only for a text that is
\* tokenized to its end.
C26_TokenizeBeforeParse ==
    (doc = None /\ mode \in {"parse", "parse_all"}) =>
        /\ pc = "tokenize" => ps = Parser(<<>>)
        /\ pc = "parse" =>
               /\ tz.done /\ tz.res.ok
               /\ tz.t.pos = Len(text)
               /\ ps.tokens = tz.res.value
        /\ pc = "done" =>
               IF Unterminated(text)
               THEN /\ result = Err(ParseError(MsgUnterminated,
                                               LineAt(text, LastOpen(text)),
                                               ColumnAt(text, LastOpen(text))))
                    /\ ps = Parser(<<>>)
               ELSE /\ tz.done /\ tz.res.ok
                    /\ tz.t.pos = Len(text)
                    /\ ps.tokens = tz.res.value
                    /\ result = ps.res

\* the text )"a of a stray closing paren and then an unterminated string:
\* the error returned is the one of the string, at line 1, column 2
C26_Witness ==
    /\ doc = None
    /\ mode = "parse"
    /\ pc = "done"
    /\ text = <<")", "\"", "a">>
    /\ result = Err(ParseError(MsgUnterminated, 1, 2))
    /\ parse(<<Token("RPAREN", <<")">>, 1, 1)>>)
           = Err(ParseError(MsgClosingParen, 1, 1))

-----------------------------------------------------------------------------
\* the places of the properties of the receiver that have the name
Named(name) ==
    {i \in 1..Len(doc.self.properties) : doc.self.properties[i].name = name}

\* C27: with_property(p) of a SymbolInstance and of a SymbolDef returns a
\* value in which every property named p.name is replaced in place by p, or
\* p is appended at the end when no property has that name; the other
\* properties keep their values and order, every other field is the
\* receiver's, and property_value(p.name) of the result is p.value
\* (property_value of another name is what it is of the receiver).
C27_WithProperty ==
    (mode \in {"SymbolInstance", "SymbolDef"} /\ pc # "with_property") =>
        LET old == doc.self.properties
            new == result.properties
            p == doc.prop
        IN  /\ IF Named(p.name) = {}
               THEN /\ Len(new) = Len(old) + 1
                    /\ new[Len(new)] = p
                    /\ \A i \in 1..Len(old) : new[i] = old[i]
               ELSE /\ Len(new) = Len(old)
                    /\ \A i \in Named(p.name) : new[i] = p
                    /\ \A i \in (1..Len(old)) \ Named(p.name) : new[i] = old[i]
            /\ [result EXCEPT !.properties = old] = doc.self
            /\ pc = "done" =>
                   IF out.name = p.name THEN out.returned = p.value
                   ELSE IF Named(out.name) = {} THEN out.returned = None
                   ELSE out.returned
                            = old[CHOOSE i \in Named(out.name) :
                                      \A j \in Named(out.name) : i <= j].value

\* a symbol instance with the properties Reference, Value, Reference: both
\* properties named Reference are replaced, and property_value("Reference")
\* returns the new value
C27_Witness ==
    /\ mode = "SymbolInstance"
    /\ pc = "done"
    /\ Len(doc.self.properties) = 3
    /\ Named(Str("Reference")) = {1, 3}
    /\ doc.self.properties[1].value # doc.self.properties[3].value
    /\ doc.prop.name = Str("Reference")
    /\ result.properties = <<doc.prop, doc.self.properties[2], doc.prop>>
    /\ result.uuid = [value |-> Str("u1")]
    /\ out = [name |-> Str("Reference"), returned |-> Str("new")]

-----------------------------------------------------------------------------
\* the endpoints of the wires of the schematic, in the order of the check:
\* <<i, 1>> is the start and <<i, 2>> the end of the i-th wire
EndpointAt(e) == IF e[2] = 1 THEN doc.wires[e[1]].start ELSE doc.wires[e[1]].end

\* something connects at the endpoint: an endpoint of another wire, a
\* junction, or a label of a kind collected as a connection point
Connected(e) ==
    LET pt == Coordinates(EndpointAt(e))
    IN  \/ \E j \in 1..Len(doc.wires) :
               /\ j # e[1]
               /\ pt \in {Coordinates(doc.wires[j].start), Coordinates(doc.wires[j].end)}
        \/ PlacedOn(doc.junctions, pt) > 0
        \/ PlacedOn(doc.labels, pt) > 0
        \/ PlacedOn(doc.hierarchical_labels, pt) > 0
        \/ PlacedOn(doc.global_labels, pt) > 0

\* the violations reported at the coordinates of the endpoint
ReportedAt(e) ==
    {k \in 1..Len(result) :
        /\ result[k].rule_id = Str("wire_dangling")
        /\ Coordinates(result[k].location) = Coordinates(EndpointAt(e))}

\* the endpoints that share the coordinates of the endpoint
SamePlace(e) ==
    {f \in (1..Len(doc.wires)) \X {1, 2} :
        Coordinates(EndpointAt(f)) = Coordinates(EndpointAt(e))}

\* C28: WireDanglingRule reports a wire endpoint only when nothing connects
\* at that point: an endpoint at an endpoint of another wire, at a junction
\* or at a label of any kind collected as a connection point (local,
\* hierarchical or global) produces no wire_dangling violation, and every
\* endpoint with none of these produces exactly one.
C28_WireDangling ==
    (mode = "wire_dangling" /\ pc = "done") =>
        \A e \in (1..Len(doc.wires)) \X {1, 2} :
            IF Connected(e) THEN ReportedAt(e) = {}
            ELSE Cardinality(ReportedAt(e)) = Cardinality(SamePlace(e))

\* a wire from (0, 0) to (2.54, 0) with a junction at its start and a global
\* label at its end: the end is reported as dangling
C28_Diverges ==
    /\ mode = "wire_dangling"
    /\ pc = "done"
    /\ Len(doc.wires) = 1
    /\ doc.wires[1].start = Point(0, 0)
    /\ doc.wires[1].end = Point(2540000, 0)
    /\ Len(doc.junctions) = 1 /\ Coordinates(doc.junctions[1].position) = <<0, 0>>
    /\ doc.labels = <<>> /\ doc.hierarchical_labels = <<>>
    /\ Len(doc.global_labels) = 1
    /\ Coordinates(doc.global_labels[1].position) = <<2540000, 0>>
    /\ <<2540000, 0>> \in connection_points(doc)
    /\ Len(result) = 1
    /\ result[1].location = Position(2540000, 0, 0)

-----------------------------------------------------------------------------
\* the rules a runner has by the calls made on it
OwnRules(r) == out.runners[r].given \o out.runners[r].added

\* the violations of the rules, rule after rule
RECURSIVE ViolationsOf(_)
ViolationsOf(rules) ==
    IF rules = <<>> THEN <<>>
    ELSE ViolationsOf(SubSeq(rules, 1, Len(rules) - 1))
         \o RuleCheck(rules[Len(rules)], doc, Str(""))

\* C29: ErcRunner instances share no mutable state: after any sequence of
\* add_rule calls ErcRunner.DEFAULT_RULES (and a list handed to
\* ErcRunner(rules)) is unchanged, no two runners have the same list, every
\* runner has exactly the rules it was made with followed by the rules
\* added to it, and check (and run_erc, with the default rules) returns the
\* violations of those rules concatenated in rule order.
C29_RunnersIndependent ==
    mode = "runner" =>
        /\ out.heap[1] = DEFAULT_RULES
        /\ out.heap[2] = CallerRules
        /\ \A r \in 1..Len(out.runners) :
               /\ out.runners[r].self \notin {1, 2}
               /\ \A q \in 1..Len(out.runners) :
                      q # r => out.runners[q].self # out.runners[r].self
               /\ out.heap[out.runners[r].self] = OwnRules(r)
        /\ pc = "done" =>
               /\ result.returned.sheet_path = Str("")
               /\ result.returned.violations
                      = ViolationsOf(IF result.runner = 0 THEN DEFAULT_RULES
                                     ELSE OwnRules(result.runner))

\* two runners made with the default rules, wire_dangling added to the
\* first: the check of the second returns the violations of the four
\* default rules, without a second round of wire_dangling
C29_Witness ==
    /\ mode = "runner"
    /\ pc = "done"
    /\ Len(doc.symbols) = 3
    /\ Len(out.runners) = 2
    /\ out.runners[1].given = DEFAULT_RULES
    /\ out.runners[2].given = DEFAULT_RULES
    /\ out.runners[1].added = <<"wire_dangling">>
    /\ out.runners[2].added = <<>>
    /\ result.runner = 2
    /\ Len(out.heap[out.runners[1].self]) = 5
    /\ Len(result.returned.violations) = 5
    /\ result.returned.violations[1].rule_id = Str("wire_dangling")
    /\ result.returned.violations[2].rule_id = Str("wire_dangling")
    /\ result.returned.violations[3].rule_id = Str("label_dangling")
    /\ result.returned.violations[4].rule_id = Str("duplicate_reference")
    /\ result.returned.violations[5].rule_id = Str("endpoint_off_grid")

-----------------------------------------------------------------------------
\* what is left to do: the characters not yet scanned and the tokens not yet
\* parsed
ScanLeft == Len(text) - tz.t.pos
TokensLeft == Len(ps.tokens) - ps.pos

\* the scan position and the parser position stay within the text and the
\* tokens, every ATOM token has at least one character, and no more
\* expressions have been returned than tokens were taken
Bounded ==
    (doc = None /\ mode \in {"parse", "parse_all"}) =>
        /\ tz.t.pos \in 0..Len(text)
        /\ ps.pos \in 0..Len(ps.tokens)
        /\ \A i \in 1..Len(tz.tokens) :
               tz.tokens[i].type = "ATOM" => tz.tokens[i].value # <<>>
        /\ Len(ps.exprs) <= ps.pos
        /\ (pc = "done" /\ result.ok /\ mode = "parse") => ps.pos >= 1

\* an iteration of the tokenizer's main loop takes at least one character
\* and adds at most one token; a step of the parser that does not return
\* takes one token
Progress ==
    /\ (pc = "tokenize" /\ tz' # tz /\ tz.t.pos < Len(text)) =>
           /\ tz'.t.pos > tz.t.pos
           /\ Len(tz'.tokens) <= Len(tz.tokens) + 1
    /\ (pc = "tokenize" /\ tz' # tz /\ ~(tz.t.pos < Len(text))) =>
           (tz'.done /\ tz'.t = tz.t)
    /\ (pc = "parse" /\ pc' = "parse" /\ ps' # ps) => ps'.pos = ps.pos + 1

\* C30: tokenize followed by parse terminates on every finite input text:
\* each iteration of the tokenizer's main loop consumes at least one
\* character (every ATOM token is non-empty and the scan position strictly
\* increases), each successful _parse_expr consumes at least one token, and
\* the call returns.
C30_Terminates ==
    /\ []Bounded
    /\ [][Progress]_vars
    /\ <>(pc = "done")

\* the text "(a)" has been scanned in three iterations and parsed in three
\* steps, and the call has returned
C30_Witness ==
    /\ doc = None
    /\ mode = "parse"
    /\ pc = "done"
    /\ text = <<"(", "a", ")">>
    /\ ScanLeft = 0
    /\ TokensLeft = 0
    /\ Len(tz.tokens) = 3
    /\ result = Ok(List(<<Atom(<<"a">>)>>))

=============================================================================
